---- MODULE Spec2Model ----
(***************************************************************************)
(* Model of the mini-allocator of src/src/mini_allocator.c: the per-batch  *)
(* bump allocator, the metadata log kept on cache pages, release, and the  *)
(* range traversal (for_each) with its extent actions.                     *)
(*                                                                         *)
(* Meta pages are modelled as byte-addressed memories: a page is a         *)
(* function from the offsets that hold a non-zero value to that value, and *)
(* every structure field is read and written at the offset the C layout    *)
(* gives it.  A scalar field is one cell at the offset of its first byte.  *)
(***************************************************************************)
EXTENDS Integers, Sequences, FiniteSets, TLC

VARIABLES
    phase,          \* "new", "open", "closed", "freed", "aborted"
    meta_head,      \* mini->meta_head
    meta_tail,      \* mini->meta_tail
    next_addr,      \* mini->next_addr[batch]
    next_extent,    \* mini->next_extent[batch]
    last_meta_addr, \* mini->last_meta_addr[batch]
    last_meta_pos,  \* mini->last_meta_pos[batch]
    pages,          \* contents of the meta pages, by page address
    refcount,       \* extent allocator: reference count by extent base address
    hist,           \* per batch: the allocs in the order the sentinel was taken
    last,           \* the most recent completed call and what it did
    thr,            \* per thread: position inside mini_allocator_alloc and its locals
    pins,           \* cache: the pins held, as <<page address, thread>>
    claimed,        \* cache: the claims held, as <<page address, thread>>
    locked          \* cache: the write locks held, as <<page address, thread>>

vars == <<phase, meta_head, meta_tail, next_addr, next_extent, last_meta_addr,
          last_meta_pos, pages, refcount, hist, last, thr, pins, claimed, locked>>

mini == <<meta_head, meta_tail, next_addr, next_extent, last_meta_addr, last_meta_pos>>
cachevars == <<pins, claimed, locked>>

----------------------------------------------------------------------------
(* Program constants.                                                      *)

MINI_WAIT == 1
MAX_INLINE_KEY_SIZE == 256

\* struct meta_entry: field offsets and sizeof
OffExtentAddr == 0
OffStartKeyLength == 8
OffEndKeyLength == 10
OffZapped == 12
OffEndKey == 13
OffStartKey == OffEndKey + MAX_INLINE_KEY_SIZE
SizeofMetaEntry == 272

\* struct meta_hdr: field offsets and sizeof (= offset of entries[])
OffNextMetaAddr == 0
OffPos == 8
OffNumEntries == 12
SizeofMetaHdr == 16

----------------------------------------------------------------------------
(* Bounds of the model.                                                    *)

EntriesPerPage == 2     \* meta entries with a one-byte key that fit on a page
PagesPerExtent == 2     \* cache_extent_size / cache_page_size
MaxExtents == 8         \* extents the extent allocator can hand out
MaxRefcount == 2        \* cap on the reference count reached by inc_range
MaxTraversals == 2      \* traversals made on one log
MaxAllocs == 5          \* alloc calls made on one allocator

Batches == {0, 1}
Threads == {1, 2}
KeyBytes == {1, 2}

PageSize == SizeofMetaHdr + EntriesPerPage * (SizeofMetaEntry + 1)
ExtentSize == PagesPerExtent * PageSize

NullKey == << >>
Keys == {NullKey} \cup {<<c>> : c \in KeyBytes}
\* one key and the null key, for the calls where only the presence of a key
\* decides what the code does
OneKeyOrNone == {NullKey, <<1>>}

ExtentBases == {e * ExtentSize : e \in 1..MaxExtents}

----------------------------------------------------------------------------
(* Page memory.                                                            *)

EmptyMem == [o \in {} |-> 0]

MemRead(m, o) == IF o \in DOMAIN m THEN m[o] ELSE 0

MemWrite(m, o, v) ==
    IF v = 0
    THEN [x \in DOMAIN m \ {o} |-> m[x]]
    ELSE [x \in DOMAIN m \cup {o} |-> IF x = o THEN v ELSE m[x]]

\* copy the bytes of key to offset o (data_key_copy)
MemWriteKey(m, o, key) ==
    LET dst == {o + i - 1 : i \in 1..Len(key)} IN
    [x \in (DOMAIN m \ {y \in dst : key[y - o + 1] = 0})
           \cup {y \in dst : key[y - o + 1] # 0}
        |-> IF x \in dst THEN key[x - o + 1] ELSE m[x]]

\* memset(o, 0, n)
MemZero(m, o, n) == [x \in {y \in DOMAIN m : y < o \/ y >= o + n} |-> m[x]]

MemReadKey(m, o, n) == [i \in 1..n |-> MemRead(m, o + i - 1)]

----------------------------------------------------------------------------
(* Keys: slices and the comparator.                                        *)

slice_length(key) == Len(key)
slice_is_null(key) == Len(key) = 0

Min2(a, b) == IF a < b THEN a ELSE b

\* lexicographic comparison: -1, 0 or 1
RECURSIVE LexCmpFrom(_, _, _)
LexCmpFrom(k1, k2, i) ==
    IF i > Min2(Len(k1), Len(k2))
    THEN (IF Len(k1) < Len(k2) THEN -1 ELSE IF Len(k1) > Len(k2) THEN 1 ELSE 0)
    ELSE IF k1[i] < k2[i] THEN -1
    ELSE IF k1[i] > k2[i] THEN 1
    ELSE LexCmpFrom(k1, k2, i + 1)

data_key_compare(k1, k2) == LexCmpFrom(k1, k2, 1)

----------------------------------------------------------------------------
(* Meta entries and meta page headers.                                     *)

meta_entry_size(key) == SizeofMetaEntry + slice_length(key)
sizeof_meta_entry(m, p) == SizeofMetaEntry + MemRead(m, p + OffStartKeyLength)

meta_entry_start_key(m, p) ==
    MemReadKey(m, p + OffStartKey, MemRead(m, p + OffStartKeyLength))
meta_entry_end_key(m, p) ==
    MemReadKey(m, p + OffEndKey, MemRead(m, p + OffEndKeyLength))
EntryExtentAddr(m, p) == MemRead(m, p + OffExtentAddr)
EntryZapped(m, p) == MemRead(m, p + OffZapped) # 0

HdrNextMetaAddr(m) == MemRead(m, OffNextMetaAddr)
\* faulty variant: the write offset is taken to be the first entry's
HdrPosFirst(m) == SizeofMetaHdr
HdrPos(m) == MemRead(m, OffPos)
HdrNumEntries(m) == MemRead(m, OffNumEntries)

first_entry == SizeofMetaHdr
\* faulty variant: the entry pointer is not advanced
NextEntrySame(m, p) == p
next_entry(m, p) == p + sizeof_meta_entry(m, p)

\* the offsets of the entries of a page, as for_each visits them
RECURSIVE EntryOffsetsFrom(_, _, _)
EntryOffsetsFrom(m, p, n) ==
    IF n = 0 THEN << >> ELSE <<p>> \o EntryOffsetsFrom(m, next_entry(m, p), n - 1)

EntryOffsets(m) == EntryOffsetsFrom(m, first_entry, HdrNumEntries(m))

\* the chain of meta pages from head, following next_meta_addr
RECURSIVE ChainFrom(_, _, _)
ChainFrom(pgs, addr, fuel) ==
    IF addr = 0 \/ addr \notin DOMAIN pgs \/ fuel = 0 THEN << >>
    ELSE <<addr>> \o ChainFrom(pgs, HdrNextMetaAddr(pgs[addr]), fuel - 1)

Chain(pgs, head) == ChainFrom(pgs, head, MaxExtents * PagesPerExtent)

\* every entry of the log as <<page address, offset>>, in log order
RECURSIVE LogOf(_, _)
LogOf(pgs, chain) ==
    IF chain = << >> THEN << >>
    ELSE LET a == Head(chain)
             offs == EntryOffsets(pgs[a])
         IN [i \in 1..Len(offs) |-> <<a, offs[i]>>] \o LogOf(pgs, Tail(chain))

Log == LogOf(pages, Chain(pages, meta_head))

Range(s) == {s[i] : i \in DOMAIN s}

----------------------------------------------------------------------------
(* Extent allocator and cache deallocation.                                *)

ExtentBaseOf(addr) == (addr \div ExtentSize) * ExtentSize

FreeExtents(rc) == {x \in ExtentBases : rc[x] = 0}

\* allocator_alloc_extent: the lowest free extent, with one reference
AllocExtentAddr(rc) == CHOOSE x \in FreeExtents(rc) : \A y \in FreeExtents(rc) : x <= y
AllocExtentRc(rc) == [rc EXCEPT ![AllocExtentAddr(rc)] = 1]

allocator_inc_refcount(rc, base) == [rc EXCEPT ![base] = @ + 1]

\* cache_dealloc: drop one reference; TRUE iff the count reached zero
DeallocRc(rc, base) == [rc EXCEPT ![base] = @ - 1]
DeallocFreed(rc, base) == rc[base] = 1

----------------------------------------------------------------------------
(* mini_allocator_init.                                                    *)

NumBatches == Cardinality(Batches)

\* cache_alloc hands out a fresh page
FreshPage == EmptyMem

\* faulty variant: the write offset of the new page is left at 0
InitHdrPosZero(m) == MemWrite(MemWrite(m, OffNextMetaAddr, 0), OffNumEntries, 0)

\* the header of an empty meta page
InitHdr(m) ==
    MemWrite(MemWrite(MemWrite(m, OffNextMetaAddr, 0), OffPos, SizeofMetaHdr),
             OffNumEntries, 0)

\* faulty variant: one extent is reserved and shared by every batch
ReserveFromShared(rc, ne, b) ==
    [refcount |-> AllocExtentRc(rc), next_extent |-> [x \in Batches |-> AllocExtentAddr(rc)]]

\* the loop reserving one extent per batch, batch 0 first
RECURSIVE ReserveFrom(_, _, _)
ReserveFrom(rc, ne, b) ==
    IF b >= NumBatches THEN [refcount |-> rc, next_extent |-> ne]
    ELSE ReserveFrom(AllocExtentRc(rc), [ne EXCEPT ![b] = AllocExtentAddr(rc)], b + 1)

ZeroBatch == [b \in Batches |-> 0]

\* the cache calls made by one call of the mini-allocator, counted by kind
NoCacheOps ==
    [alloc |-> 0, get |-> 0, claim |-> 0, lock |-> 0, unlock |-> 0, unclaim |-> 0, unget |-> 0]

OpsAdd(x, y) == [k \in DOMAIN x |-> x[k] + y[k]]
OpsTimes(n, x) == [k \in DOMAIN x |-> n * x[k]]

\* cache_get, a successful cache_claim and cache_lock on one page
AcquireOps == [NoCacheOps EXCEPT !.get = 1, !.claim = 1, !.lock = 1]
\* faulty variant: the page is unlocked and unclaimed but stays pinned
ReleaseOpsNoUnget == [NoCacheOps EXCEPT !.unlock = 1, !.unclaim = 1]
\* cache_unlock, cache_unclaim and cache_unget on one page
ReleaseOps == [NoCacheOps EXCEPT !.unlock = 1, !.unclaim = 1, !.unget = 1]
\* cache_alloc of one page
PageAllocOps == [NoCacheOps EXCEPT !.alloc = 1]
\* cache_get and cache_unget of one page
ReadOps == [NoCacheOps EXCEPT !.get = 1, !.unget = 1]

\* lines 94-105 and 121-124: the cache calls of init
InitCacheOps(tail) ==
    OpsAdd(IF tail = 0 THEN PageAllocOps ELSE AcquireOps, ReleaseOps)

\* mini_allocator_init(mini, cc, cfg, head, tail, num_batches, type)
MiniInit(head, tail) ==
    /\ Cardinality(FreeExtents(refcount)) >= NumBatches
    /\ LET r == ReserveFrom(refcount, ZeroBatch, 0) IN
       /\ meta_head' = head
       /\ meta_tail' = (IF tail = 0 THEN head ELSE tail)
       /\ pages' = (IF tail = 0
                    THEN [a \in DOMAIN pages \cup {head} |->
                             IF a = head THEN InitHdr(FreshPage) ELSE pages[a]]
                    ELSE pages)
       /\ next_addr' = ZeroBatch
       /\ last_meta_addr' = ZeroBatch
       /\ last_meta_pos' = ZeroBatch
       /\ next_extent' = r.next_extent
       /\ refcount' = r.refcount
       /\ hist' = (IF tail = 0 THEN [b \in Batches |-> << >>] ELSE hist)
       /\ last' = [op |-> "init", ret |-> r.next_extent[0], tail |-> tail,
                   ops |-> InitCacheOps(tail)]
       /\ phase' = "open"

----------------------------------------------------------------------------
(* mini_allocator_alloc: the pieces of the handler.                        *)

\* faulty variant: the boundary is seen one page early
IsCrossingOnePageEarly(na) == (na + PageSize) % ExtentSize = 0

\* line 153: the captured next_addr is at the start of an extent
IsCrossing(na) == na % ExtentSize = 0

\* faulty variant: the bump pointer is not advanced
BumpAddrStuck(addr) == addr

\* faulty variant: the cursor moves down the extent
BumpAddrBack(addr) == addr - PageSize

\* lines 166 and 288: the batch cursor after vending addr
BumpAddr(addr) == addr + PageSize

\* line 192: the entry does not fit on the tail page
NeedNewMetaPage(m, key) == PageSize < HdrPos(m) + meta_entry_size(key)

\* faulty variant: the next page is always the page after the tail
NewMetaTailNeedsExtentNever(tail) == FALSE

\* lines 194-199: the address of the next meta page
NewMetaTailNeedsExtent(tail) == (tail + PageSize) % ExtentSize = 0
NewMetaTail(tail, rc) ==
    IF NewMetaTailNeedsExtent(tail) THEN AllocExtentAddr(rc) ELSE tail + PageSize

\* faulty variant: the new tail page is not linked from the old one
GrowLogUnlinked(pgs, rc, tail, key) ==
    IF ~NeedNewMetaPage(pgs[tail], key)
    THEN [pages |-> pgs, refcount |-> rc, meta_tail |-> tail]
    ELSE LET nt == NewMetaTail(tail, rc) IN
         [pages |-> [a \in DOMAIN pgs \cup {nt} |->
                        IF a = nt THEN InitHdr(FreshPage) ELSE pgs[a]],
          refcount |-> (IF NewMetaTailNeedsExtent(tail) THEN AllocExtentRc(rc) ELSE rc),
          meta_tail |-> nt]

\* lines 192-212: link a new tail page when the entry does not fit
GrowLog(pgs, rc, tail, key) ==
    IF ~NeedNewMetaPage(pgs[tail], key)
    THEN [pages |-> pgs, refcount |-> rc, meta_tail |-> tail]
    ELSE LET nt == NewMetaTail(tail, rc) IN
         [pages |-> [a \in DOMAIN pgs \cup {nt} |->
                        IF a = nt THEN InitHdr(FreshPage)
                        ELSE IF a = tail THEN MemWrite(pgs[a], OffNextMetaAddr, nt)
                        ELSE pgs[a]],
          refcount |-> (IF NewMetaTailNeedsExtent(tail) THEN AllocExtentRc(rc) ELSE rc),
          meta_tail |-> nt]

\* lines 246-247 and 315-316: store end_key into the entry at offset p
PatchEndKey(m, p, key) ==
    MemWriteKey(MemWrite(m, p + OffEndKeyLength, slice_length(key)), p + OffEndKey, key)

\* line 245: the previous entry of the batch as alloc locates it
AllocLastEntryOffset(pos) == pos

\* lines 224-225 and 258-260: the key fields of the new entry at offset p
WriteEntryKeys(m, p, key) ==
    IF ~slice_is_null(key)
    THEN MemWriteKey(MemWrite(m, p + OffStartKeyLength, slice_length(key)),
                     p + OffStartKey, key)
    ELSE MemZero(MemWrite(MemWrite(m, p + OffStartKeyLength, 0), p + OffEndKeyLength, 0),
                 p + OffEndKey, MAX_INLINE_KEY_SIZE)

\* faulty variant: the entry is written but num_entries is not incremented
WriteEntryTailNoCount(m, p, key, ext) ==
    LET m1 == MemWrite(m, p + OffExtentAddr, ext)
        m2 == MemWrite(m1, p + OffZapped, 0)
    IN MemWrite(m2, OffPos, HdrPos(m2) + meta_entry_size(key))

\* lines 262-265: extent_addr, zapped, num_entries and pos
WriteEntryTail(m, p, key, ext) ==
    LET m1 == MemWrite(m, p + OffExtentAddr, ext)
        m2 == MemWrite(m1, p + OffZapped, 0)
        m3 == MemWrite(m2, OffNumEntries, HdrNumEntries(m2) + 1)
    IN MemWrite(m3, OffPos, HdrPos(m3) + meta_entry_size(key))

\* lines 228: the previous entry of the batch gets its end_key
NeedsFixup(key, lma) == ~slice_is_null(key) /\ lma # 0

\* faulty variant: an entry without key also becomes the batch's last entry
WriteEntryMovesPointer(pgs, tail, lma, lmp, key, ext) ==
    LET p == HdrPos(pgs[tail])
        pg1 == [pgs EXCEPT ![tail] = WriteEntryKeys(@, p, key)]
        pg2 == IF NeedsFixup(key, lma)
               THEN [pg1 EXCEPT ![lma] = PatchEndKey(@, AllocLastEntryOffset(lmp), key)]
               ELSE pg1
        pg3 == [pg2 EXCEPT ![tail] = WriteEntryTail(@, p, key, ext)]
    IN [pages |-> pg3, last_meta_addr |-> tail, last_meta_pos |-> p]

\* lines 219-265: write the entry on the tail page, back-patch the batch's
\* previous entry, and move the batch's last-entry pointer
WriteEntry(pgs, tail, lma, lmp, key, ext) ==
    LET p == HdrPos(pgs[tail])
        pg1 == [pgs EXCEPT ![tail] = WriteEntryKeys(@, p, key)]
        pg2 == IF NeedsFixup(key, lma)
               THEN [pg1 EXCEPT ![lma] = PatchEndKey(@, AllocLastEntryOffset(lmp), key)]
               ELSE pg1
        pg3 == [pg2 EXCEPT ![tail] = WriteEntryTail(@, p, key, ext)]
    IN [pages |-> pg3,
        last_meta_addr |-> (IF slice_is_null(key) THEN lma ELSE tail),
        last_meta_pos |-> (IF slice_is_null(key) THEN lmp ELSE p)]

\* lines 176-187, 202-207, 234-252 and 277-279: the cache calls of an alloc
\* that finds no page claimed by another thread
AllocCacheOps(crossing, grows, other_page) ==
    IF ~crossing THEN NoCacheOps
    ELSE LET tail_ops == OpsAdd(AcquireOps, ReleaseOps)
             grow_ops == IF grows THEN OpsAdd(PageAllocOps, ReleaseOps) ELSE NoCacheOps
             fixup_ops == IF other_page THEN OpsAdd(AcquireOps, ReleaseOps) ELSE NoCacheOps
         IN OpsAdd(tail_ops, OpsAdd(grow_ops, fixup_ops))

\* extents a crossing alloc may take from the extent allocator: the batch's
\* next reserve and, when the log grows across an extent boundary, one more
ExtentsNeeded(key) ==
    1 + (IF NeedNewMetaPage(pages[meta_tail], key) /\ NewMetaTailNeedsExtent(meta_tail)
         THEN 1 ELSE 0)

\* faulty variant: the reserve is reported as it was before line 157
OutNextExtentBefore(b, captured) == next_extent[b]

\* lines 160-162 and 285-287: the value stored through the next_extent
\* argument, read from mini->next_extent[batch] after line 157 replaced it
\* with a fresh extent in the crossing case
OutNextExtent(b, captured) ==
    IF IsCrossing(captured) THEN AllocExtentAddr(refcount) ELSE next_extent[b]

\* the record of one alloc kept in hist: the cursor it captured, the address it
\* returns, the batch's reserved extent before the call, the value it reports
\* through next_extent, and the entry's key
HistRec(b, captured, addr, key) ==
    [captured |-> captured, addr |-> addr, reserved |-> next_extent[b],
     out |-> OutNextExtent(b, captured),
     cross |-> IsCrossing(captured), key |-> IF IsCrossing(captured) THEN key ELSE NullKey]

----------------------------------------------------------------------------
(* The calls, one at a time.                                               *)

\* the alloc calls that have vended an address
RECURSIVE SumLen(_)
SumLen(bs) ==
    IF bs = {} THEN 0
    ELSE LET b == CHOOSE x \in bs : TRUE IN Len(hist[b]) + SumLen(bs \ {b})

AllocsMade == SumLen(Batches)

\* mini_allocator_alloc(mini, batch, key, &next_extent), run to completion
Alloc(b, key) ==
    /\ phase = "open"
    /\ AllocsMade < MaxAllocs
    /\ \A t \in Threads : thr[t].pc = "idle"
    /\ LET na == next_addr[b] IN
       IF IsCrossing(na)
       THEN /\ Cardinality(FreeExtents(refcount)) >= ExtentsNeeded(key)
            /\ LET ext == next_extent[b]
                   rc1 == AllocExtentRc(refcount)
                   g == GrowLog(pages, rc1, meta_tail, key)
                   w == WriteEntry(g.pages, g.meta_tail, last_meta_addr[b],
                                   last_meta_pos[b], key, ext)
               IN /\ next_extent' = [next_extent EXCEPT ![b] = AllocExtentAddr(refcount)]
                  /\ next_addr' = [next_addr EXCEPT ![b] = BumpAddr(ext)]
                  /\ refcount' = g.refcount
                  /\ meta_tail' = g.meta_tail
                  /\ pages' = w.pages
                  /\ last_meta_addr' = [last_meta_addr EXCEPT ![b] = w.last_meta_addr]
                  /\ last_meta_pos' = [last_meta_pos EXCEPT ![b] = w.last_meta_pos]
                  /\ hist' = [hist EXCEPT ![b] = Append(@, HistRec(b, na, ext, key))]
                  /\ last' = [op |-> "alloc",
                              ops |-> AllocCacheOps(TRUE, g.meta_tail # meta_tail,
                                         NeedsFixup(key, last_meta_addr[b])
                                            /\ last_meta_addr[b] # g.meta_tail)]
       ELSE /\ next_addr' = [next_addr EXCEPT ![b] = BumpAddr(na)]
            /\ hist' = [hist EXCEPT ![b] = Append(@, HistRec(b, na, na, key))]
            /\ last' = [op |-> "alloc", ops |-> AllocCacheOps(FALSE, FALSE, FALSE)]
            /\ UNCHANGED <<next_extent, refcount, meta_tail, pages,
                           last_meta_addr, last_meta_pos>>
    /\ UNCHANGED <<phase, meta_head, thr, cachevars>>

\* line 314: the previous entry of the batch as release locates it
ReleaseLastEntryOffset(pos) == SizeofMetaHdr + pos

\* faulty variant: release keeps the reserved extents
ReleaseFromNoDealloc(pgs, rc, key, b) == [pages |-> pgs, refcount |-> rc]

\* faulty variant: only the reserve of batch 0 is given back
RECURSIVE ReleaseFromFirstBatchOnly(_, _, _, _)
ReleaseFromFirstBatchOnly(pgs, rc, key, b) ==
    IF b >= NumBatches THEN [pages |-> pgs, refcount |-> rc]
    ELSE LET rc1 == IF b = 0 THEN DeallocRc(rc, next_extent[b]) ELSE rc
             pg1 == IF ~slice_is_null(key) /\ last_meta_addr[b] # 0
                    THEN [pgs EXCEPT ![last_meta_addr[b]] =
                            PatchEndKey(@, ReleaseLastEntryOffset(last_meta_pos[b]), key)]
                    ELSE pgs
         IN ReleaseFromFirstBatchOnly(pg1, rc1, key, b + 1)

\* lines 297-322: the loop of release over the batches, batch 0 first
RECURSIVE ReleaseFrom(_, _, _, _)
ReleaseFrom(pgs, rc, key, b) ==
    IF b >= NumBatches THEN [pages |-> pgs, refcount |-> rc]
    ELSE LET rc1 == DeallocRc(rc, next_extent[b])
             pg1 == IF ~slice_is_null(key) /\ last_meta_addr[b] # 0
                    THEN [pgs EXCEPT ![last_meta_addr[b]] =
                            PatchEndKey(@, ReleaseLastEntryOffset(last_meta_pos[b]), key)]
                    ELSE pgs
         IN ReleaseFrom(pg1, rc1, key, b + 1)

\* lines 302-320: the cache calls of release, one page per batch that has a
\* recorded last entry
ReleaseCacheOps(key) ==
    OpsTimes(Cardinality({b \in Batches : ~slice_is_null(key) /\ last_meta_addr[b] # 0}),
             OpsAdd(AcquireOps, ReleaseOps))

\* mini_allocator_release(mini, key)
Release(key) ==
    /\ phase = "open"
    /\ \A t \in Threads : thr[t].pc = "idle"
    /\ LET r == ReleaseFrom(pages, refcount, key, 0) IN
       /\ pages' = r.pages
       /\ refcount' = r.refcount
    /\ last' = [op |-> "release", key |-> key, ops |-> ReleaseCacheOps(key)]
    /\ phase' = "closed"
    /\ UNCHANGED <<mini, hist, thr, cachevars>>

----------------------------------------------------------------------------
(* mini_allocator_for_each and the extent actions.                         *)

\* lines 361-368
mini_allocator_addrs_share_extent(left_addr, right_addr) ==
    right_addr \div ExtentSize = left_addr \div ExtentSize

\* faulty variant: a query with only a start key is tested as a range query
ExtentInRangeNoPoint(start_key, end_key, entry_start_key, entry_end_key) ==
    IF slice_is_null(start_key) /\ slice_is_null(end_key)
    THEN TRUE
    ELSE /\ data_key_compare(start_key, entry_end_key) <= 0
         /\ data_key_compare(entry_start_key, end_key) <= 0

\* faulty variant: every entry is taken to overlap every query
ExtentInRangeAlways(start_key, end_key, entry_start_key, entry_end_key) == TRUE

\* lines 420-436: the overlap test of an entry with the query
ExtentInRange(start_key, end_key, entry_start_key, entry_end_key) ==
    IF slice_is_null(start_key) /\ slice_is_null(end_key)
    THEN TRUE
    ELSE IF slice_is_null(end_key)
    THEN /\ data_key_compare(start_key, entry_end_key) <= 0
         /\ data_key_compare(entry_start_key, start_key) <= 0
    ELSE /\ data_key_compare(start_key, entry_end_key) <= 0
         /\ data_key_compare(entry_start_key, end_key) <= 0

\* faulty variant: the extent is reported freed whatever its refcount
ZapExtentAlwaysFreed(st, base) ==
    IF st.refcount[base] = 0
    THEN [st EXCEPT !.aborted = TRUE]
    ELSE [st EXCEPT !.refcount = DeallocRc(st.refcount, base), !.ret = TRUE]

\* mini_allocator_zap_extent: cache_dealloc
ZapExtent(st, base) ==
    IF st.refcount[base] = 0
    THEN [st EXCEPT !.aborted = TRUE]
    ELSE [st EXCEPT !.refcount = DeallocRc(st.refcount, base),
                    !.ret = DeallocFreed(st.refcount, base)]

\* faulty variant: the reference is not taken
IncExtentNothing(st, base) == [st EXCEPT !.ret = FALSE]

\* mini_allocator_inc_extent
IncExtent(st, base) ==
    [st EXCEPT !.refcount = allocator_inc_refcount(st.refcount, base), !.ret = FALSE]

\* faulty variant: the count action reports the extent freed
CountExtentFreed(st, base) == [st EXCEPT !.count = @ + 1, !.ret = TRUE]

\* mini_allocator_count_extent
CountExtent(st, base) == [st EXCEPT !.count = @ + 1, !.ret = FALSE]

\* mini_allocator_sync_extent, mini_allocator_prefetch_extent
NoopExtent(st, base) == [st EXCEPT !.ret = FALSE]

\* func(cc, type, base_addr, pages_outstanding)
CallFunc(func, st, base) ==
    CASE func = "zap" -> ZapExtent(st, base)
      [] func = "inc" -> IncExtent(st, base)
      [] func = "count" -> CountExtent(st, base)
      [] OTHER -> NoopExtent(st, base)

\* faulty variant: the flag of the entry replaces the accumulated value
FoldFullyZappedLast(fully_zapped, zapped) == zapped

\* line 445
FoldFullyZapped(fully_zapped, zapped) == fully_zapped /\ zapped

\* faulty variant: the zapped flag of an in-range entry is not asserted
ForEachEntryNoAssert(func, st, a, p, start_key, end_key) ==
    LET m == st.pages[a]
        in_range == ExtentInRange(start_key, end_key,
                                  meta_entry_start_key(m, p), meta_entry_end_key(m, p))
    IN IF ~in_range
       THEN [st EXCEPT !.fully_zapped = FoldFullyZapped(@, EntryZapped(m, p))]
       ELSE LET r == CallFunc(func, st, EntryExtentAddr(m, p)) IN
            [r EXCEPT !.pages[a] = MemWrite(@, p + OffZapped, IF r.ret THEN 1 ELSE 0),
                      !.calls = Append(@, <<a, p>>),
                      !.fully_zapped = FoldFullyZapped(@, r.ret)]

\* lines 412-447: one entry, at offset p of page a
ForEachEntry(func, st, a, p, start_key, end_key) ==
    LET m == st.pages[a]
        in_range == ExtentInRange(start_key, end_key,
                                  meta_entry_start_key(m, p), meta_entry_end_key(m, p))
    IN IF ~in_range
       THEN [st EXCEPT !.fully_zapped = FoldFullyZapped(@, EntryZapped(m, p))]
       ELSE IF EntryZapped(m, p)
       THEN [st EXCEPT !.aborted = TRUE]
       ELSE LET r == CallFunc(func, st, EntryExtentAddr(m, p)) IN
            [r EXCEPT !.pages[a] = MemWrite(@, p + OffZapped, IF r.ret THEN 1 ELSE 0),
                      !.calls = Append(@, <<a, p>>),
                      !.fully_zapped = FoldFullyZapped(@, r.ret)]

\* lines 410-448: the entries of page a, from entry i at offset p
RECURSIVE ForEachEntries(_, _, _, _, _, _, _)
ForEachEntries(func, st, a, i, p, start_key, end_key) ==
    IF st.aborted \/ i >= HdrNumEntries(st.pages[a]) THEN st
    ELSE ForEachEntries(func, ForEachEntry(func, st, a, p, start_key, end_key), a,
                        i + 1, next_entry(st.pages[a], p), start_key, end_key)

\* lines 396-457: the primary pass, from page a
RECURSIVE ForEachPages(_, _, _, _, _)
ForEachPages(func, st, a, start_key, end_key) ==
    LET st1 == ForEachEntries(func, [st EXCEPT !.visited = @ + 1], a, 0, first_entry,
                              start_key, end_key)
        next_meta_addr == HdrNextMetaAddr(st1.pages[a])
    IN IF st1.aborted \/ next_meta_addr = 0 THEN st1
       ELSE ForEachPages(func, st1, next_meta_addr, start_key, end_key)

\* lines 461-473: the pass over the meta pages, from page a
RECURSIVE ForEachMetaExtents(_, _, _)
ForEachMetaExtents(func, st, a) ==
    LET next_meta_addr == HdrNextMetaAddr(st.pages[a])
        st0 == [st EXCEPT !.visited2 = @ + 1]
        st1 == IF ~mini_allocator_addrs_share_extent(a, next_meta_addr)
               THEN [CallFunc(func, st0, ExtentBaseOf(a)) EXCEPT
                        !.calls2 = Append(@, ExtentBaseOf(a))]
               ELSE st0
    IN IF st1.aborted \/ next_meta_addr = 0 THEN st1
       ELSE ForEachMetaExtents(func, st1, next_meta_addr)

\* faulty variant: the meta pages are never reclaimed
RunsSecondPassNever(st) == FALSE

\* faulty variant: the meta pages are always passed to the action
RunsSecondPassAlways(st) == TRUE

\* line 459: the second pass runs when the primary pass ended fully zapped
RunsSecondPass(st) == st.fully_zapped

\* mini_allocator_for_each(cc, cfg, type, meta_head, func, start_key, end_key, ctx)
ForEach(func, pgs, rc, head, start_key, end_key) ==
    LET st0 == [pages |-> pgs, refcount |-> rc, fully_zapped |-> TRUE, ret |-> FALSE,
                calls |-> << >>, calls2 |-> << >>, aborted |-> FALSE, count |-> 0,
                visited |-> 0, visited2 |-> 0]
        st1 == ForEachPages(func, st0, head, start_key, end_key)
    IN IF ~st1.aborted /\ RunsSecondPass(st1)
       THEN ForEachMetaExtents(func, st1, head)
       ELSE st1

\* what a traversal leaves in the variable last
TraversalsDone == IF last.op = "release" THEN 0 ELSE last.n

\* lines 397-406, 452-455 and 462-466: the cache calls of a traversal that finds
\* no page claimed by another thread; a traversal stopped by the assertion of
\* line 442 keeps the page it stopped on
ForEachCacheOps(r) ==
    LET released == IF r.aborted /\ r.visited2 = 0 THEN r.visited - 1 ELSE r.visited
    IN OpsAdd(OpsTimes(r.visited, AcquireOps),
              OpsAdd(OpsTimes(released, ReleaseOps), OpsTimes(r.visited2, ReadOps)))

LastOfTraversal(op, start_key, end_key, r) ==
    [op |-> op, start_key |-> start_key, end_key |-> end_key,
     ret |-> r.fully_zapped, calls |-> r.calls, calls2 |-> r.calls2,
     aborted |-> r.aborted, count |-> r.count, n |-> TraversalsDone + 1,
     ops |-> ForEachCacheOps(r)]

Traverse(op, func, start_key, end_key) ==
    /\ phase = "closed"
    /\ TraversalsDone < MaxTraversals
    /\ LET r == ForEach(func, pages, refcount, meta_head, start_key, end_key) IN
       /\ \A x \in ExtentBases : r.refcount[x] <= MaxRefcount
       /\ pages' = r.pages
       /\ refcount' = r.refcount
       /\ last' = LastOfTraversal(op, start_key, end_key, r)
       /\ phase' = (IF r.aborted THEN "aborted"
                    ELSE IF func = "zap" /\ r.fully_zapped THEN "freed"
                    ELSE "closed")
    /\ UNCHANGED <<mini, hist, thr, cachevars>>

\* mini_allocator_zap(cc, cfg, meta_head, start_key, end_key, type)
Zap(start_key, end_key) == Traverse("zap", "zap", start_key, end_key)

\* mini_allocator_inc_range(cc, cfg, type, meta_head, start_key, end_key)
IncRange(start_key, end_key) == Traverse("inc_range", "inc", start_key, end_key)

\* mini_allocator_count_extents_in_range(cc, cfg, type, meta_head, start_key,
\* end_key); the value returned is last'.count
CountExtentsInRange(start_key, end_key) == Traverse("count", "count", start_key, end_key)

\* mini_allocator_sync(cc, type, meta_head, pages_outstanding)
Sync == Traverse("sync", "sync", NullKey, NullKey)

\* mini_allocator_prefetch(cc, type, meta_head)
Prefetch == Traverse("prefetch", "prefetch", NullKey, NullKey)

\* faulty variant: zapped entries are counted too
CountUnzappedAll(m, p, n) == n

\* lines 605-610: the entries of one meta page whose zapped flag is false
RECURSIVE CountUnzapped(_, _, _)
CountUnzapped(m, p, n) ==
    IF n = 0 THEN 0
    ELSE (IF ~EntryZapped(m, p) THEN 1 ELSE 0) + CountUnzapped(m, next_entry(m, p), n - 1)

\* lines 598-614: one for each meta page and one for each entry not zapped,
\* page by page until next_meta_addr is 0
RECURSIVE ExtentCountFrom(_, _, _)
ExtentCountFrom(pgs, addr, fuel) ==
    IF fuel = 0 THEN 0
    ELSE 1 + CountUnzapped(pgs[addr], first_entry, HdrNumEntries(pgs[addr]))
           + (IF HdrNextMetaAddr(pgs[addr]) # 0
              THEN ExtentCountFrom(pgs, HdrNextMetaAddr(pgs[addr]), fuel - 1)
              ELSE 0)

ExtentCountOf(pgs, head) == ExtentCountFrom(pgs, head, MaxExtents * PagesPerExtent)

\* what a call that only reads the meta pages leaves in the variable last
LastOfRead(op, ret) ==
    [op |-> op, ret |-> ret, calls |-> << >>, calls2 |-> << >>, aborted |-> FALSE,
     n |-> TraversalsDone,
     ops |-> OpsTimes(Len(Chain(pages, meta_head)), ReadOps)]

\* mini_allocator_extent_count(cc, type, meta_head)
ExtentCount ==
    /\ phase = "closed"
    /\ last' = LastOfRead("extent_count", ExtentCountOf(pages, meta_head))
    /\ UNCHANGED <<phase, mini, pages, refcount, hist, thr, cachevars>>

\* mini_allocator_print(cc, cfg, type, meta_head)
PrintLog ==
    /\ phase = "closed"
    /\ last' = LastOfRead("print", 0)
    /\ UNCHANGED <<phase, mini, pages, refcount, hist, thr, cachevars>>

----------------------------------------------------------------------------
(* The allocator used by one caller at a time.                             *)

IdleThread == [pc |-> "idle", batch |-> 0, key |-> NullKey, na |-> 0, ext |-> 0, tail |-> 0]

\* before mini_allocator_init: the caller has taken the extent of meta_head
InitNew ==
    /\ phase = "new"
    /\ meta_head = 0
    /\ meta_tail = 0
    /\ next_addr = ZeroBatch
    /\ next_extent = ZeroBatch
    /\ last_meta_addr = ZeroBatch
    /\ last_meta_pos = ZeroBatch
    /\ pages = [a \in {} |-> EmptyMem]
    /\ refcount = [x \in ExtentBases |-> IF x = ExtentSize THEN 1 ELSE 0]
    /\ hist = [b \in Batches |-> << >>]
    /\ last = [op |-> "none"]
    /\ thr = [t \in Threads |-> IdleThread]
    /\ pins = {}
    /\ claimed = {}
    /\ locked = {}

\* the caller's extent holds its own first page; meta_head is the page after it
CallerMetaHead == ExtentSize + PageSize

InitFresh ==
    /\ phase = "new"
    /\ MiniInit(CallerMetaHead, 0)
    /\ UNCHANGED <<thr, cachevars>>

AllocCall == \E b \in Batches, key \in Keys : Alloc(b, key)
ReleaseCall == \E key \in Keys : Release(key)

NextSeq ==
    \/ InitFresh
    \/ AllocCall
    \/ ReleaseCall

SpecSeq == InitNew /\ [][NextSeq]_vars

----------------------------------------------------------------------------
(* A release whose key has the greatest length the call accepts.           *)

\* line 295: slice_length(key) <= MAX_INLINE_KEY_SIZE; a key of that length
\* whose bytes differ from every byte of the other keys
LongKey == [i \in 1..MAX_INLINE_KEY_SIZE |-> 3]

ReleaseCallLong == \E key \in {NullKey, LongKey} : Release(key)

NextLong ==
    \/ InitFresh
    \/ AllocCall
    \/ ReleaseCallLong

SpecLong == InitNew /\ [][NextLong]_vars

----------------------------------------------------------------------------
(* A log closed and opened again.                                          *)

\* a closed allocator is opened again on its log: mini_allocator_init with the
\* meta_tail the previous instance ended with
InitLoad ==
    /\ phase = "closed"
    /\ last.op = "release"
    /\ MiniInit(meta_head, meta_tail)
    /\ UNCHANGED <<thr, cachevars>>

NextLoad ==
    \/ InitFresh
    \/ \E b \in Batches, key \in OneKeyOrNone : Alloc(b, key)
    \/ \E key \in OneKeyOrNone : Release(key)
    \/ InitLoad

\* a log built, closed, opened again and extended
SpecLoad == InitNew /\ [][NextLoad]_vars

----------------------------------------------------------------------------
(* Traversals of a log built by one caller through batch 0.                *)

AllocCall0 == \E key \in Keys : Alloc(0, key)
ZapCall == \E start_key \in Keys, end_key \in Keys : Zap(start_key, end_key)
IncRangeCall == \E start_key \in Keys, end_key \in Keys : IncRange(start_key, end_key)

NextTrav ==
    \/ InitFresh
    \/ AllocCall0
    \/ ReleaseCall
    \/ ZapCall
    \/ IncRangeCall

SpecTrav == InitNew /\ [][NextTrav]_vars

----------------------------------------------------------------------------
(* The life of a log: built from either meta_head, closed, then read and   *)
(* traversed by every kind of call.                                        *)

CountCall ==
    \E start_key \in Keys, end_key \in Keys : CountExtentsInRange(start_key, end_key)

\* the caller puts meta_head on the first page of its extent, so that the
\* first two meta pages share that extent
InitFreshAtBase ==
    /\ phase = "new"
    /\ MiniInit(ExtentSize, 0)
    /\ UNCHANGED <<thr, cachevars>>

\* inc_range over the whole log
IncRangeAll == IncRange(NullKey, NullKey)

NextLife ==
    \/ InitFresh
    \/ InitFreshAtBase
    \/ AllocCall0
    \/ ReleaseCall
    \/ ZapCall
    \/ IncRangeAll
    \/ CountCall
    \/ Sync
    \/ Prefetch
    \/ ExtentCount
    \/ PrintLog

SpecLife == InitNew /\ [][NextLife]_vars

----------------------------------------------------------------------------
(* mini_allocator_alloc called from several threads: the steps of one call *)
(* between which other threads can run.                                    *)

\* the state mini_allocator_init leaves for a fresh log at CallerMetaHead
InitRc == [x \in ExtentBases |-> IF x = ExtentSize THEN 1 ELSE 0]

OpenLog ==
    /\ phase = "open"
    /\ meta_head = CallerMetaHead
    /\ meta_tail = CallerMetaHead
    /\ next_addr = ZeroBatch
    /\ next_extent = ReserveFrom(InitRc, ZeroBatch, 0).next_extent
    /\ last_meta_addr = ZeroBatch
    /\ last_meta_pos = ZeroBatch
    /\ pages = [a \in {CallerMetaHead} |-> InitHdr(FreshPage)]
    /\ refcount = ReserveFrom(InitRc, ZeroBatch, 0).refcount
    /\ hist = [b \in Batches |-> << >>]
    /\ last = [op |-> "init", ret |-> ReserveFrom(InitRc, ZeroBatch, 0).next_extent[0],
               tail |-> 0, ops |-> InitCacheOps(0)]
    /\ pins = {}
    /\ claimed = {}
    /\ locked = {}

InitOpen == OpenLog /\ thr = [t \in Threads |-> IdleThread]

\* cache_get waits while another thread holds the write lock
CanGet(a, t) == \A x \in locked : x[1] = a => x[2] = t
\* cache_claim succeeds when no thread holds the claim
CanClaim(a) == \A x \in claimed : x[1] # a
\* cache_lock waits until the caller's pin is the only one
CanLock(a, t) == \A x \in pins : x[1] = a => x[2] = t

\* extents a call in progress may still take from the extent allocator
ThreadNeed(t) ==
    CASE thr[t].pc \in {"cas", "cross"} -> 2
      [] thr[t].pc \in {"read_tail", "get_tail", "claim_tail", "lock_tail", "append"} -> 1
      [] OTHER -> 0

RECURSIVE SumNeed(_)
SumNeed(ts) ==
    IF ts = {} THEN 0
    ELSE LET t == CHOOSE u \in ts : TRUE IN ThreadNeed(t) + SumNeed(ts \ {t})

\* line 139: the call reads the cursor of its batch
AllocStart(t, b, key) ==
    /\ phase = "open"
    /\ thr[t].pc = "idle"
    /\ AllocsMade + Cardinality({u \in Threads : thr[u].pc \in {"cas", "cross"}}) < MaxAllocs
    /\ Cardinality(FreeExtents(refcount)) >= SumNeed(Threads) + 2
    /\ thr' = [thr EXCEPT ![t] = [pc |-> "cas", batch |-> b, key |-> key,
                                  na |-> next_addr[b], ext |-> 0, tail |-> 0]]
    /\ UNCHANGED <<phase, mini, pages, refcount, hist, last, cachevars>>

\* lines 143-150: a failed attempt on the sentinel re-reads the cursor
AllocCasFail(t) ==
    /\ thr[t].pc = "cas"
    /\ thr[t].na = MINI_WAIT \/ next_addr[thr[t].batch] # thr[t].na
    /\ thr' = [thr EXCEPT ![t].na = next_addr[thr[t].batch]]
    /\ UNCHANGED <<phase, mini, pages, refcount, hist, last, cachevars>>

\* lines 144-145, 153, 285-289: the compare-and-swap succeeds inside an extent
AllocBump(t) ==
    LET b == thr[t].batch
        na == thr[t].na
    IN /\ thr[t].pc = "cas"
       /\ na # MINI_WAIT /\ next_addr[b] = na
       /\ ~IsCrossing(na)
       /\ next_addr' = [next_addr EXCEPT ![b] = BumpAddr(na)]
       /\ hist' = [hist EXCEPT ![b] = Append(@, HistRec(b, na, na, thr[t].key))]
       /\ thr' = [thr EXCEPT ![t] = IdleThread]
       /\ UNCHANGED <<phase, meta_head, meta_tail, next_extent, last_meta_addr,
                      last_meta_pos, pages, refcount, last, cachevars>>

\* lines 144-145, 153: the compare-and-swap succeeds at an extent boundary
AllocCasCross(t) ==
    LET b == thr[t].batch
        na == thr[t].na
    IN /\ thr[t].pc = "cas"
       /\ na # MINI_WAIT /\ next_addr[b] = na
       /\ IsCrossing(na)
       /\ next_addr' = [next_addr EXCEPT ![b] = MINI_WAIT]
       /\ thr' = [thr EXCEPT ![t].pc = "cross"]
       /\ UNCHANGED <<phase, meta_head, meta_tail, next_extent, last_meta_addr,
                      last_meta_pos, pages, refcount, hist, last, cachevars>>

\* lines 156-166: take the reserved extent, reserve the next, store the cursor
AllocCross(t) ==
    LET b == thr[t].batch IN
    /\ thr[t].pc = "cross"
    /\ next_extent' = [next_extent EXCEPT ![b] = AllocExtentAddr(refcount)]
    /\ refcount' = AllocExtentRc(refcount)
    /\ next_addr' = [next_addr EXCEPT ![b] = BumpAddr(next_extent[b])]
    /\ hist' = [hist EXCEPT ![b] = Append(@, HistRec(b, thr[t].na, next_extent[b],
                                                      thr[t].key))]
    /\ thr' = [thr EXCEPT ![t].pc = "read_tail", ![t].ext = next_extent[b]]
    /\ UNCHANGED <<phase, meta_head, meta_tail, last_meta_addr, last_meta_pos,
                   pages, last, cachevars>>

\* line 177
AllocReadTail(t) ==
    /\ thr[t].pc = "read_tail"
    /\ thr' = [thr EXCEPT ![t].pc = "get_tail", ![t].tail = meta_tail]
    /\ UNCHANGED <<phase, mini, pages, refcount, hist, last, cachevars>>

\* line 178
AllocGetTail(t) ==
    /\ thr[t].pc = "get_tail"
    /\ CanGet(thr[t].tail, t)
    /\ pins' = pins \cup {<<thr[t].tail, t>>}
    /\ thr' = [thr EXCEPT ![t].pc = "claim_tail"]
    /\ UNCHANGED <<phase, mini, pages, refcount, hist, last, claimed, locked>>

\* faulty variant: the claim is taken without checking that the page is
\* still the tail
AllocClaimTailNoRecheck(t) ==
    /\ thr[t].pc = "claim_tail"
    /\ CanClaim(thr[t].tail)
    /\ claimed' = claimed \cup {<<thr[t].tail, t>>}
    /\ thr' = [thr EXCEPT ![t].pc = "lock_tail"]
    /\ UNCHANGED <<phase, mini, pages, refcount, hist, last, pins, locked>>

\* line 179: the page is still the tail and the claim is obtained
AllocClaimTail(t) ==
    /\ thr[t].pc = "claim_tail"
    /\ thr[t].tail = meta_tail /\ CanClaim(thr[t].tail)
    /\ claimed' = claimed \cup {<<thr[t].tail, t>>}
    /\ thr' = [thr EXCEPT ![t].pc = "lock_tail"]
    /\ UNCHANGED <<phase, mini, pages, refcount, hist, last, pins, locked>>

\* faulty variant: the retry keeps the pin on the page it gives up
AllocRetryTailKeepsPin(t) ==
    /\ thr[t].pc = "claim_tail"
    /\ ~(thr[t].tail = meta_tail /\ CanClaim(thr[t].tail))
    /\ thr' = [thr EXCEPT ![t].pc = "read_tail"]
    /\ UNCHANGED <<phase, mini, pages, refcount, hist, last, cachevars>>

\* lines 179-184: the tail moved or the claim failed: unget and retry
AllocRetryTail(t) ==
    /\ thr[t].pc = "claim_tail"
    /\ ~(thr[t].tail = meta_tail /\ CanClaim(thr[t].tail))
    /\ pins' = pins \ {<<thr[t].tail, t>>}
    /\ thr' = [thr EXCEPT ![t].pc = "read_tail"]
    /\ UNCHANGED <<phase, mini, pages, refcount, hist, last, claimed, locked>>

\* line 187
AllocLockTail(t) ==
    /\ thr[t].pc = "lock_tail"
    /\ CanLock(thr[t].tail, t)
    /\ locked' = locked \cup {<<thr[t].tail, t>>}
    /\ thr' = [thr EXCEPT ![t].pc = "append"]
    /\ UNCHANGED <<phase, mini, pages, refcount, hist, last, pins, claimed>>

\* faulty variant: the page of the previous entry is always acquired
FixupOnOtherPageAlways(key, lma, tail) == NeedsFixup(key, lma)

\* line 230: the batch's previous entry is on a page other than the held tail
FixupOnOtherPage(key, lma, tail) == NeedsFixup(key, lma) /\ lma # tail

\* lines 191-230: grow the log when the entry does not fit, and find out
\* whether the page of the batch's previous entry has to be acquired
AllocGrowLog(t) ==
    LET b == thr[t].batch
        old == thr[t].tail
        g == GrowLog(pages, refcount, meta_tail, thr[t].key)
        held == {<<old, t>>}
        new == {<<g.meta_tail, t>>}
    IN /\ thr[t].pc = "append"
       /\ pages' = g.pages
       /\ refcount' = g.refcount
       /\ meta_tail' = g.meta_tail
       /\ pins' = (pins \ held) \cup new
       /\ claimed' = (claimed \ held) \cup new
       /\ locked' = (locked \ held) \cup new
       /\ thr' = [thr EXCEPT ![t].tail = g.meta_tail,
                             ![t].pc = IF FixupOnOtherPage(thr[t].key, last_meta_addr[b],
                                                           g.meta_tail)
                                       THEN "get_last" ELSE "finish"]
       /\ UNCHANGED <<phase, meta_head, next_addr, next_extent, last_meta_addr,
                      last_meta_pos, hist, last>>

\* line 234
AllocGetLast(t) ==
    LET a == last_meta_addr[thr[t].batch] IN
    /\ thr[t].pc = "get_last"
    /\ CanGet(a, t)
    /\ pins' = pins \cup {<<a, t>>}
    /\ thr' = [thr EXCEPT ![t].pc = "claim_last"]
    /\ UNCHANGED <<phase, mini, pages, refcount, hist, last, claimed, locked>>

\* lines 235-239: the claim is retried, with the pin kept, until it succeeds
AllocClaimLast(t) ==
    LET a == last_meta_addr[thr[t].batch] IN
    /\ thr[t].pc = "claim_last"
    /\ CanClaim(a)
    /\ claimed' = claimed \cup {<<a, t>>}
    /\ thr' = [thr EXCEPT ![t].pc = "lock_last"]
    /\ UNCHANGED <<phase, mini, pages, refcount, hist, last, pins, locked>>

\* line 241
AllocLockLast(t) ==
    LET a == last_meta_addr[thr[t].batch] IN
    /\ thr[t].pc = "lock_last"
    /\ CanLock(a, t)
    /\ locked' = locked \cup {<<a, t>>}
    /\ thr' = [thr EXCEPT ![t].pc = "finish"]
    /\ UNCHANGED <<phase, mini, pages, refcount, hist, last, pins, claimed>>

\* lines 219-281: write the entry, back-patch, release the pages, return
AllocFinish(t) ==
    LET b == thr[t].batch
        w == WriteEntry(pages, thr[t].tail, last_meta_addr[b], last_meta_pos[b],
                        thr[t].key, thr[t].ext)
        mine == {x \in pins \cup claimed \cup locked : x[2] = t}
    IN /\ thr[t].pc = "finish"
       /\ pages' = w.pages
       /\ last_meta_addr' = [last_meta_addr EXCEPT ![b] = w.last_meta_addr]
       /\ last_meta_pos' = [last_meta_pos EXCEPT ![b] = w.last_meta_pos]
       /\ pins' = pins \ mine
       /\ claimed' = claimed \ mine
       /\ locked' = locked \ mine
       /\ thr' = [thr EXCEPT ![t] = IdleThread]
       /\ UNCHANGED <<phase, meta_head, meta_tail, next_addr, next_extent, refcount,
                      hist, last>>

Next ==
    \/ \E t \in Threads, b \in Batches, key \in Keys : AllocStart(t, b, key)
    \/ \E t \in Threads : AllocCasFail(t)
    \/ \E t \in Threads : AllocBump(t)
    \/ \E t \in Threads : AllocCasCross(t)
    \/ \E t \in Threads : AllocCross(t)
    \/ \E t \in Threads : AllocReadTail(t)
    \/ \E t \in Threads : AllocGetTail(t)
    \/ \E t \in Threads : AllocClaimTail(t)
    \/ \E t \in Threads : AllocRetryTail(t)
    \/ \E t \in Threads : AllocLockTail(t)
    \/ \E t \in Threads : AllocGrowLog(t)
    \/ \E t \in Threads : AllocGetLast(t)
    \/ \E t \in Threads : AllocClaimLast(t)
    \/ \E t \in Threads : AllocLockLast(t)
    \/ \E t \in Threads : AllocFinish(t)

Spec == InitOpen /\ [][Next]_vars

\* the steps of the call thread t is in
AllocStep(t) ==
    \/ AllocCasFail(t)
    \/ AllocBump(t)
    \/ AllocCasCross(t)
    \/ AllocCross(t)
    \/ AllocReadTail(t)
    \/ AllocGetTail(t)
    \/ AllocClaimTail(t)
    \/ AllocRetryTail(t)
    \/ AllocLockTail(t)
    \/ AllocGrowLog(t)
    \/ AllocGetLast(t)
    \/ AllocClaimLast(t)
    \/ AllocLockLast(t)
    \/ AllocFinish(t)

\* The spins and waits of alloc depend on whether a key is given, not on its
\* bytes. Fair scheduling: a thread inside a call whose next step is possible again
\* and again takes it. A retrying thread sleeps between its attempts (lines
\* 148, 182, 237), so a thread waiting in cache_lock for the pins to drain or
\* in cache_get for a lock to go finds the page free again and again.
NextFair ==
    \/ \E t \in Threads, b \in Batches, key \in OneKeyOrNone : AllocStart(t, b, key)
    \/ \E t \in Threads : AllocStep(t)

FairSpec == InitOpen /\ [][NextFair]_vars /\ \A t \in Threads : SF_vars(AllocStep(t))

\* Allocs whose key has the greatest length: one such entry fills a meta page,
\* so that a crossing alloc links a new tail page while the other thread has
\* pinned the old one.
NextTail ==
    \/ \E t \in Threads, b \in Batches, key \in {NullKey, LongKey} : AllocStart(t, b, key)
    \/ \E t \in Threads : AllocStep(t)

SpecTail == InitOpen /\ [][NextTail]_vars

----------------------------------------------------------------------------
(* mini_allocator_alloc and mini_allocator_for_each called concurrently:   *)
(* the steps of one traversal between which other threads can run.         *)

Traverser == 0

IdleTraverser == [pc |-> "idle", addr |-> 0, fully_zapped |-> TRUE]

InitMix == OpenLog /\ thr = [t \in Threads \cup {Traverser} |->
                               IF t = Traverser THEN IdleTraverser ELSE IdleThread]

\* lines 389, 395: mini_allocator_sync starts at meta_head
TravStart ==
    /\ thr[Traverser].pc = "idle"
    /\ thr' = [thr EXCEPT ![Traverser] =
                  [pc |-> "t_get", addr |-> meta_head, fully_zapped |-> TRUE]]
    /\ UNCHANGED <<phase, mini, pages, refcount, hist, last, cachevars>>

\* lines 397, 403
TravGet ==
    /\ thr[Traverser].pc = "t_get"
    /\ CanGet(thr[Traverser].addr, Traverser)
    /\ pins' = pins \cup {<<thr[Traverser].addr, Traverser>>}
    /\ thr' = [thr EXCEPT ![Traverser].pc = "t_claim"]
    /\ UNCHANGED <<phase, mini, pages, refcount, hist, last, claimed, locked>>

\* line 398: the claim is obtained
TravClaim ==
    /\ thr[Traverser].pc = "t_claim"
    /\ CanClaim(thr[Traverser].addr)
    /\ claimed' = claimed \cup {<<thr[Traverser].addr, Traverser>>}
    /\ thr' = [thr EXCEPT ![Traverser].pc = "t_lock"]
    /\ UNCHANGED <<phase, mini, pages, refcount, hist, last, pins, locked>>

\* lines 398-402: the claim failed: unget, sleep and get again
TravRetry ==
    /\ thr[Traverser].pc = "t_claim"
    /\ ~CanClaim(thr[Traverser].addr)
    /\ pins' = pins \ {<<thr[Traverser].addr, Traverser>>}
    /\ thr' = [thr EXCEPT ![Traverser].pc = "t_get"]
    /\ UNCHANGED <<phase, mini, pages, refcount, hist, last, claimed, locked>>

\* line 406
TravLock ==
    /\ thr[Traverser].pc = "t_lock"
    /\ CanLock(thr[Traverser].addr, Traverser)
    /\ locked' = locked \cup {<<thr[Traverser].addr, Traverser>>}
    /\ thr' = [thr EXCEPT ![Traverser].pc = "t_visit"]
    /\ UNCHANGED <<phase, mini, pages, refcount, hist, last, pins, claimed>>

\* lines 408-457: the entries of the locked page, its release, and the move
\* to the next page, to the pass over the meta pages, or to the return
TravVisit ==
    LET a == thr[Traverser].addr
        st0 == [pages |-> pages, refcount |-> refcount,
                fully_zapped |-> thr[Traverser].fully_zapped, ret |-> FALSE,
                calls |-> << >>, calls2 |-> << >>, aborted |-> FALSE, count |-> 0,
                visited |-> 0, visited2 |-> 0]
        st1 == ForEachEntries("sync", st0, a, 0, first_entry, NullKey, NullKey)
        next_meta_addr == HdrNextMetaAddr(st1.pages[a])
        mine == {<<a, Traverser>>}
    IN /\ thr[Traverser].pc = "t_visit"
       /\ ~st1.aborted
       /\ pages' = st1.pages
       /\ pins' = pins \ mine
       /\ claimed' = claimed \ mine
       /\ locked' = locked \ mine
       /\ thr' = [thr EXCEPT ![Traverser] =
                     IF next_meta_addr # 0
                     THEN [pc |-> "t_get", addr |-> next_meta_addr,
                           fully_zapped |-> st1.fully_zapped]
                     ELSE IF st1.fully_zapped
                     THEN [pc |-> "t_meta", addr |-> meta_head, fully_zapped |-> TRUE]
                     ELSE IdleTraverser]
       /\ UNCHANGED <<phase, mini, refcount, hist, last>>

\* lines 463-472: one meta page of the second pass: get, read, unget, and the
\* action of sync on its extent
TravMeta ==
    LET a == thr[Traverser].addr
        next_meta_addr == HdrNextMetaAddr(pages[a])
    IN /\ thr[Traverser].pc = "t_meta"
       /\ CanGet(a, Traverser)
       /\ thr' = [thr EXCEPT ![Traverser] =
                     IF next_meta_addr # 0
                     THEN [pc |-> "t_meta", addr |-> next_meta_addr, fully_zapped |-> TRUE]
                     ELSE IdleTraverser]
       /\ UNCHANGED <<phase, mini, pages, refcount, hist, last, cachevars>>

\* the steps of the traversal in progress
TravStep ==
    \/ TravGet
    \/ TravClaim
    \/ TravRetry
    \/ TravLock
    \/ TravVisit
    \/ TravMeta

NextMix ==
    \/ Next
    \/ TravStart
    \/ TravStep

SpecMix == InitMix /\ [][NextMix]_vars

----------------------------------------------------------------------------
(* Notions used to state the properties.                                   *)

AllIdle == \A t \in Threads : thr[t].pc = "idle"

LogEntries == Range(Log)
ExtentOf(e) == EntryExtentAddr(pages[e[1]], e[2])
ZappedOf(e) == EntryZapped(pages[e[1]], e[2])
StartKeyOf(e) == meta_entry_start_key(pages[e[1]], e[2])
EndKeyOf(e) == meta_entry_end_key(pages[e[1]], e[2])

\* how many times x occurs in the sequence sq
CountIn(sq, x) == Cardinality({i \in DOMAIN sq : sq[i] = x})

\* every alloc made so far, as <<batch, position in the batch's order>>
AllocIds == {x \in Batches \X (1..MaxAllocs) : x[2] <= Len(hist[x[1]])}

KeyLeq(k1, k2) == data_key_compare(k1, k2) <= 0

\* the overlap of the query (s, e) with an entry whose keys are es and ee
Overlaps(s, e, es, ee) ==
    \/ s = NullKey /\ e = NullKey
    \/ s # NullKey /\ e = NullKey /\ KeyLeq(s, ee) /\ KeyLeq(es, s)
    \/ e # NullKey /\ KeyLeq(s, ee) /\ KeyLeq(es, e)

IsTraversal(l) == l.op \in {"zap", "inc_range"}

----------------------------------------------------------------------------
(* C1: under any interleaving of alloc calls no page address is vended     *)
(* twice, and on every batch the addresses vended, in the order the batch  *)
(* sentinel was taken, are base, base + page_size, ... of one extent, each *)
(* once, before the base of the batch's next extent.                       *)
C1_NoDoubleVend ==
    /\ \A x \in AllocIds, y \in AllocIds :
          x # y => hist[x[1]][x[2]].addr # hist[y[1]][y[2]].addr
    /\ \A b \in Batches : \A i \in 1..Len(hist[b]) :
          LET k == (i - 1) % PagesPerExtent
              first == hist[b][i - k]
          IN /\ first.addr \in ExtentBases
             /\ hist[b][i].addr = first.addr + k * PageSize

\* two calls are in progress on a batch that is already in its second extent
C1_Witness ==
    \E b \in Batches :
       /\ Len(hist[b]) > PagesPerExtent
       /\ \A t \in Threads : thr[t].pc # "idle" /\ thr[t].batch = b

(* C2 (P1): for allocs issued one after another on a batch, the first      *)
(* alloc and every alloc that captured a multiple of the extent size       *)
(* return the base of the extent that was in next_extent[batch] before the *)
(* call; every other alloc returns the previous return value plus a page.  *)
C2_BumpMonotone ==
    \A b \in Batches : \A i \in 1..Len(hist[b]) :
       LET h == hist[b][i] IN
       IF i = 1 \/ h.captured % ExtentSize = 0
       THEN h.addr = h.reserved /\ h.addr \in ExtentBases
       ELSE h.addr = hist[b][i - 1].addr + PageSize

\* a batch has crossed into its second extent and bumped inside it
C2_Witness == \E b \in Batches : Len(hist[b]) >= 2 * PagesPerExtent

(* C8 (P2): any two distinct entries of the log name different extents,    *)
(* and the entries of the log are, one each, the extents returned by the   *)
(* crossing allocs.                                                        *)
C8_DisjointExtents ==
    /\ \A i \in DOMAIN Log, j \in DOMAIN Log : i # j => ExtentOf(Log[i]) # ExtentOf(Log[j])
    /\ Len(Log) = Cardinality({x \in AllocIds : hist[x[1]][x[2]].cross})
    /\ {ExtentOf(e) : e \in LogEntries}
          = {hist[x[1]][x[2]].addr : x \in {y \in AllocIds : hist[y[1]][y[2]].cross}}

\* three crossing allocs, on both batches, have written their entries
C8_Witness ==
    /\ Len(Log) >= 3
    /\ \A b \in Batches : Len(hist[b]) >= 1

----------------------------------------------------------------------------
(* Traversals.                                                             *)

\* the last call was a traversal that ran to its return
Returned == IsTraversal(last) /\ ~last.aborted

\* the action was invoked on entry e exactly once if yes, and never if not
InvokedOnceIff(e, yes) == CountIn(last.calls, e) = (IF yes THEN 1 ELSE 0)

(* C3 (P4), for traversals that return: the action is invoked on an entry  *)
(* exactly once if the query overlaps the entry's keys (both query keys    *)
(* empty; or only e empty and s <= end_key and start_key <= s; or          *)
(* s <= end_key and start_key <= e), and not at all otherwise.             *)
C3_RangeOverlap ==
    Returned =>
       \A e \in LogEntries :
          InvokedOnceIff(e, Overlaps(last.start_key, last.end_key,
                                     StartKeyOf(e), EndKeyOf(e)))

(* C3 as first stated, for every traversal whether or not it returns.      *)
C3_RangeOverlapAnyTraversal ==
    IsTraversal(last) =>
       \A e \in LogEntries :
          InvokedOnceIff(e, Overlaps(last.start_key, last.end_key,
                                     StartKeyOf(e), EndKeyOf(e)))

\* a query with a start key reached some entries of the log and not others
C3_Witness ==
    /\ Returned
    /\ last.start_key # NullKey
    /\ last.calls # << >>
    /\ Len(last.calls) < Len(Log)

(* C6 (P6): when zap with both keys empty has returned true, the extent of *)
(* every entry of the log has refcount zero, and every extent that holds a *)
(* meta page of the log was deallocated exactly once by the call.          *)
C6_FullZapFreesAll ==
    (last.op = "zap" /\ ~last.aborted /\ last.ret
       /\ last.start_key = NullKey /\ last.end_key = NullKey) =>
       /\ \A e \in LogEntries : refcount[ExtentOf(e)] = 0
       /\ \A a \in Range(Chain(pages, meta_head)) :
             CountIn(last.calls2, ExtentBaseOf(a)) = 1

\* a full zap returned true on a log whose meta pages span two extents
C6_Witness ==
    /\ last.op = "zap" /\ ~last.aborted /\ last.ret
    /\ last.start_key = NullKey /\ last.end_key = NullKey
    /\ Len(Log) >= 3
    /\ Len(last.calls2) >= 2

(* C7: the extent of every entry whose zapped flag is false has refcount   *)
(* at least 1, and an entry is zapped exactly when the refcount of its     *)
(* extent has been brought to zero.                                        *)
C7_NonZappedReferenced ==
    \A e \in LogEntries :
       /\ ~ZappedOf(e) => refcount[ExtentOf(e)] >= 1
       /\ ZappedOf(e) <=> refcount[ExtentOf(e)] = 0

\* one entry was zapped while another, referenced twice, survived a zap
C7_Witness ==
    /\ last.op = "zap"
    /\ \E e \in LogEntries : ZappedOf(e)
    /\ \E e \in LogEntries : ~ZappedOf(e) /\ refcount[ExtentOf(e)] = 1
                                /\ e \in Range(last.calls)

\* the effect of a zap step on entry e, whose query is in last'
ZapEffectOn(e) ==
    LET x == ExtentOf(e)
        zapped_after == EntryZapped(pages'[e[1]], e[2])
    IN IF Overlaps(last'.start_key, last'.end_key, StartKeyOf(e), EndKeyOf(e))
       THEN ~ZappedOf(e) =>
              /\ CountIn(last'.calls, e) = 1
              /\ refcount'[x] = refcount[x] - 1
              /\ zapped_after <=> refcount'[x] = 0
       ELSE /\ CountIn(last'.calls, e) = 0
            /\ refcount'[x] = refcount[x]
            /\ zapped_after <=> ZappedOf(e)

(* C9, for a zap that returns: the extent of every non-zapped entry that   *)
(* overlaps the query is deallocated exactly once, the entry is zapped     *)
(* exactly if that brought the refcount to zero, and the refcount and the  *)
(* zapped flag of every entry that does not overlap are unchanged.         *)
C9_ZapFrame ==
    [][(phase = "closed" /\ last'.op = "zap" /\ ~last'.aborted) =>
          \A e \in LogEntries : ZapEffectOn(e)]_vars

(* C9 as first stated, for every zap whether or not it returns.            *)
C9_ZapFrameAnyZap ==
    [][(phase = "closed" /\ last'.op = "zap") =>
          \A e \in LogEntries : ZapEffectOn(e)]_vars

\* a range zap freed the extent of one entry, left another entry alone, and
\* returned false
C9_Witness ==
    /\ last.op = "zap" /\ ~last.aborted /\ ~last.ret
    /\ last.end_key # NullKey
    /\ \E e \in Range(last.calls) : ZappedOf(e)
    /\ \E e \in LogEntries : e \notin Range(last.calls) /\ ~ZappedOf(e)

(* C10: a traversal returns true exactly if every entry of the log, in     *)
(* range or not, has its zapped flag set when the traversal ends.          *)
C10_ReturnsFullyZapped ==
    Returned => (last.ret <=> \A e \in LogEntries : ZappedOf(e))

\* a zap of part of the log returned false and left a zapped entry behind
\* an entry that is not zapped
C10_Witness ==
    /\ last.op = "zap" /\ ~last.aborted /\ ~last.ret
    /\ \E i \in DOMAIN Log, j \in DOMAIN Log :
          i < j /\ ~ZappedOf(Log[i]) /\ ZappedOf(Log[j])

----------------------------------------------------------------------------
(* End keys.                                                               *)

\* the crossing allocs of batch b that gave a key, in sentinel order
KeyedCrossings(b) == SelectSeq(hist[b], LAMBDA h : h.cross /\ h.key # NullKey)

\* the entry of the log that names extent x
EntryOfExtent(x) == CHOOSE e \in LogEntries : ExtentOf(e) = x

(* C4 (P3): once all allocs have completed, for every batch and every two  *)
(* crossing allocs with non-empty keys that took the batch sentinel one    *)
(* after the other, the end_key of the earlier alloc's entry is the        *)
(* start_key of the later alloc's entry.                                   *)
C4_EndKeyChain ==
    AllIdle =>
       \A b \in Batches :
          LET kc == KeyedCrossings(b) IN
          \A i \in 1..(Len(kc) - 1) :
             EndKeyOf(EntryOfExtent(kc[i].addr))
                = StartKeyOf(EntryOfExtent(kc[i + 1].addr))

(* C5: after release(key) with a non-empty key, for every batch with a     *)
(* recorded last entry, the entry at (last_meta_addr[b], last_meta_pos[b]) *)
(* has end_key = key.                                                      *)
C5_ReleasePatchesLastEntry ==
    (last.op = "release" /\ last.key # NullKey) =>
       \A b \in Batches :
          last_meta_addr[b] # 0 =>
             meta_entry_end_key(pages[last_meta_addr[b]], last_meta_pos[b]) = last.key

----------------------------------------------------------------------------
(* Zapped entries.                                                         *)

\* the zapped flag of entry e after the step
ZappedAfter(e) == EntryZapped(pages'[e[1]], e[2])

(* C12: the zapped flag of an entry never goes from true back to false,    *)
(* and a traversal whose query overlaps an entry that is already zapped    *)
(* stops at the assertion without invoking the action on that entry and    *)
(* without changing the refcount of its extent.                            *)
C12_ZappedAtMostOnce ==
    [][/\ \A e \in LogEntries : ZappedOf(e) => ZappedAfter(e)
       /\ (phase = "closed" /\ last' # last /\ IsTraversal(last')) =>
             \A e \in LogEntries :
                (ZappedOf(e) /\ Overlaps(last'.start_key, last'.end_key,
                                         StartKeyOf(e), EndKeyOf(e))) =>
                   /\ last'.aborted
                   /\ CountIn(last'.calls, e) = 0
                   /\ refcount'[ExtentOf(e)] = refcount[ExtentOf(e)]]_vars

\* a traversal was stopped by an entry that an earlier zap had freed
C12_Witness ==
    /\ IsTraversal(last) /\ last.aborted
    /\ \E e \in LogEntries :
          /\ ZappedOf(e)
          /\ Overlaps(last.start_key, last.end_key, StartKeyOf(e), EndKeyOf(e))
          /\ refcount[ExtentOf(e)] = 0

----------------------------------------------------------------------------
(* Release.                                                                *)

\* the extents reserved for the batches
ReservedExtents == {next_extent[b] : b \in Batches}

(* C16: release takes exactly one reference from the reserved extent of    *)
(* each batch, which returns it to the free pool, changes the refcount of  *)
(* no other extent, and changes no zapped flag.                            *)
C16_ReleaseFrame ==
    [][(phase = "open" /\ phase' = "closed") =>
          /\ \A x \in ExtentBases :
                refcount'[x] = (IF x \in ReservedExtents THEN refcount[x] - 1
                                ELSE refcount[x])
          /\ \A x \in ReservedExtents : refcount'[x] = 0
          /\ \A e \in LogEntries : ZappedAfter(e) <=> ZappedOf(e)]_vars

\* a release, with a key, of an allocator that vended extents on both
\* batches and grew its log across an extent boundary
C16_Witness ==
    /\ last.op = "release" /\ last.key # NullKey
    /\ Len(Log) >= 3
    /\ \A b \in Batches : Len(hist[b]) >= 1 /\ refcount[next_extent[b]] = 0
    /\ Len(Chain(pages, meta_head)) >= 2

----------------------------------------------------------------------------
(* Initialisation: fresh and load.                                         *)

LogAfter == LogOf(pages', Chain(pages', meta_head'))

IsInitStep == phase # "open" /\ phase' = "open"

\* the entry at e holds the same bytes after the step
EntryKept(e) ==
    /\ e[1] \in DOMAIN pages'
    /\ EntryExtentAddr(pages'[e[1]], e[2]) = ExtentOf(e)
    /\ ZappedAfter(e) = ZappedOf(e)
    /\ meta_entry_start_key(pages'[e[1]], e[2]) = StartKeyOf(e)
    /\ meta_entry_end_key(pages'[e[1]], e[2]) = EndKeyOf(e)

\* C17: an init with n batches, fresh or load, reserves exactly n extents, one
\* per batch, leaves every batch's next_addr and last_meta_addr at 0 and adds
\* no entry to the log; it returns next_extent[0], which stays the reserve of
\* batch 0 until the first alloc on batch 0, and that alloc returns it.
C17_InitReserves ==
    [][/\ IsInitStep =>
            /\ {x \in ExtentBases : refcount'[x] # refcount[x]}
                  = {next_extent'[b] : b \in Batches}
            /\ Cardinality({next_extent'[b] : b \in Batches}) = NumBatches
            /\ \A b \in Batches :
                  refcount[next_extent'[b]] = 0 /\ refcount'[next_extent'[b]] = 1
            /\ next_addr' = ZeroBatch
            /\ last_meta_addr' = ZeroBatch
            /\ LogAfter = (IF last'.tail = 0 THEN << >> ELSE Log)
            /\ last'.ret = next_extent'[0]
       /\ (phase = "open" /\ next_addr[0] = 0 /\ hist'[0] = hist[0] /\ phase' = "open")
            => next_extent'[0] = next_extent[0] /\ next_addr'[0] = 0
       /\ (phase = "open" /\ next_addr[0] = 0 /\ hist'[0] # hist[0])
            => hist'[0][Len(hist'[0])].addr = next_extent[0]]_vars

\* a load of a log of two entries has returned the reserve of batch 0
C17_Witness ==
    /\ last.op = "init" /\ last.tail # 0
    /\ Len(Log) >= 2
    /\ last.ret = next_extent[0]

\* C18: a load leaves every page as it was and adopts the given meta_tail;
\* the first alloc after it appends its entry at the write offset of the tail
\* page, or at the first offset of a new tail page when it does not fit, and
\* every earlier entry stays in the log with the bytes it had.
C18_LoadAppends ==
    [][/\ (IsInitStep /\ last'.tail # 0) =>
            /\ pages' = pages
            /\ meta_tail' = last'.tail
            /\ meta_head' = meta_head
       /\ (phase = "open" /\ last.op = "init" /\ last.tail # 0 /\ last'.op = "alloc") =>
            /\ LogAfter = Append(Log,
                  IF meta_tail' = meta_tail
                  THEN <<meta_tail, HdrPos(pages[meta_tail])>>
                  ELSE <<meta_tail', first_entry>>)
            /\ \A e \in LogEntries : EntryKept(e)]_vars

\* batch 1 allocated before a load and not since, batch 0 made its only alloc
\* after the load, and the log holds both entries
C18_Witness ==
    /\ phase = "open" /\ last.op = "alloc"
    /\ Len(hist[0]) = 1
    /\ hist[1] # << >> /\ next_addr[1] = 0
    /\ Len(Log) = 2

----------------------------------------------------------------------------
(* The pass over the meta pages.                                           *)

\* a call of mini_allocator_for_each that has returned
IsForEach(l) == l.op \in {"zap", "inc_range", "count", "sync", "prefetch"}
ForEachReturned == IsForEach(last) /\ ~last.aborted

MetaExtents == {ExtentBaseOf(a) : a \in Range(Chain(pages, meta_head))}

\* C19: a traversal passes meta-page extents to the action only when every
\* entry is zapped at the end of the primary pass, and then passes each
\* distinct extent holding a meta page exactly once; otherwise it passes none.
C19_MetaExtentsOnce ==
    ForEachReturned =>
        IF \A e \in LogEntries : ZappedOf(e)
        THEN /\ Range(last.calls2) = MetaExtents
             /\ \A x \in MetaExtents : CountIn(last.calls2, x) = 1
        ELSE last.calls2 = << >>

\* a full zap of a log of three entries whose two meta pages share one extent
C19_Witness ==
    /\ ForEachReturned /\ last.op = "zap" /\ Len(Log) >= 3
    /\ \A e \in LogEntries : ZappedOf(e)
    /\ Len(Chain(pages, meta_head)) = 2
    /\ Cardinality(MetaExtents) = 1

----------------------------------------------------------------------------
(* count_extents_in_range.                                                 *)

\* the entries of the log whose stored keys overlap the query (s, e)
OverlappingEntries(s, e) ==
    {i \in DOMAIN Log : Overlaps(s, e, StartKeyOf(Log[i]), EndKeyOf(Log[i]))}

\* C20: count_extents_in_range returns exactly the number of entries whose
\* stored range overlaps the query, in every state of the log, the log without
\* entries included.
C20_CountsOverlapping ==
    (last.op = "count" /\ ~last.aborted) =>
        last.count = Cardinality(OverlappingEntries(last.start_key, last.end_key))

----------------------------------------------------------------------------
(* Entries passed to the extent action over the life of a log.             *)

\* a step that is one call of mini_allocator_for_each
IsForEachStep == phase = "closed" /\ IsForEach(last') /\ last'.n = TraversalsDone + 1

----------------------------------------------------------------------------
(* The cache calls of one call.                                            *)

\* the last call made was one of the calls below and it returned
SuccessfulCall ==
    \/ last.op \in {"init", "alloc", "release", "extent_count", "print"}
    \/ ForEachReturned

\* C15 (P7): in every call that returns, each page obtained by cache_get or
\* handed out by cache_alloc is given back by one cache_unget, each successful
\* cache_claim and each cache_alloc is matched by one cache_unclaim, and each
\* cache_lock and each cache_alloc by one cache_unlock.
C15_CacheCallsBalanced ==
    SuccessfulCall =>
        /\ last.ops.get + last.ops.alloc = last.ops.unget
        /\ last.ops.claim + last.ops.alloc = last.ops.unclaim
        /\ last.ops.lock + last.ops.alloc = last.ops.unlock

\* C15 as first stated: the get calls equal the unget calls, the successful
\* claim calls the unclaim calls, and the lock calls the unlock calls.
C15_GetsEqualUngets ==
    SuccessfulCall =>
        /\ last.ops.get = last.ops.unget
        /\ last.ops.claim = last.ops.unclaim
        /\ last.ops.lock = last.ops.unlock

\* an alloc that linked a new tail page and patched the batch's previous
\* entry on the old one
C15_Witness ==
    /\ last.op = "alloc"
    /\ last.ops.alloc = 1
    /\ last.ops.get = 2

----------------------------------------------------------------------------
(* Progress of concurrent calls.                                           *)

SomeCallRunning == \E t \in DOMAIN thr : thr[t].pc # "idle"

\* C13: with alloc and a range traversal running on the same log, in no
\* reachable state are all the calls in progress blocked: some thread inside a
\* call can take a step.
C13_NoThreadStuck ==
    SomeCallRunning => ENABLED (TravStep \/ \E t \in Threads : AllocStep(t))

----------------------------------------------------------------------------
(* inc_range.                                                              *)

\* the entries of the log whose stored keys overlap the query (s, e)
OverlappingSet(s, e) == {Log[i] : i \in OverlappingEntries(s, e)}

\* C21: inc_range(start, end) on a log whose overlapping entries are all
\* unzapped raises by exactly one the refcount of the extent of every
\* overlapping entry, changes the refcount of no extent named by an entry that
\* does not overlap, and leaves every zapped flag as it was.
C21_IncRangeEffect ==
    [][(/\ IsForEachStep
        /\ last'.op = "inc_range"
        /\ \A e \in OverlappingSet(last'.start_key, last'.end_key) : ~ZappedOf(e)) =>
          /\ ~last'.aborted
          /\ \A e \in LogEntries :
                /\ ZappedAfter(e) = ZappedOf(e)
                /\ refcount'[ExtentOf(e)] =
                     (IF e \in OverlappingSet(last'.start_key, last'.end_key)
                      THEN refcount[ExtentOf(e)] + 1
                      ELSE refcount[ExtentOf(e)])]_vars

\* an inc_range with a start key has returned on a log of three entries, one
\* of them zapped, having passed some entries and left others out
C21_Witness ==
    /\ last.op = "inc_range" /\ ~last.aborted
    /\ last.start_key # NullKey
    /\ Len(Log) >= 3
    /\ last.calls # << >>
    /\ \E e \in LogEntries : ZappedOf(e)
    /\ \E e \in LogEntries : ~ZappedOf(e) /\ e \notin Range(last.calls)

----------------------------------------------------------------------------
(* Which calls set a zapped flag.                                          *)

\* C22: only the zap action can set a zapped flag: a traversal with the inc,
\* sync, prefetch or count action, like every other call, leaves the zapped
\* flag of every entry as it was.
C22_OnlyZapSetsZapped ==
    [][\A e \in LogEntries :
          ZappedAfter(e) # ZappedOf(e) => IsForEachStep /\ last'.op = "zap"]_vars

\* a count over part of a log has passed entries to its action and returned,
\* on a log that holds a zapped entry and an entry that is not zapped
C22_Witness ==
    /\ last.op = "count" /\ ~last.aborted
    /\ last.calls # << >>
    /\ \E e \in LogEntries : ZappedOf(e)
    /\ \E e \in Range(last.calls) : ~ZappedOf(e)

----------------------------------------------------------------------------
(* extent_count.                                                           *)

\* a step that is one call of mini_allocator_extent_count
IsExtentCountStep == last'.op = "extent_count" /\ last' # last

\* C23: extent_count returns the number of meta pages in the chain plus the
\* number of entries whose zapped flag is false, whatever the keys of the
\* entries, and performs only cache get and unget, one of each per meta page:
\* no claim, lock or page allocation, no refcount change and no change to any
\* page of the log.
C23_ExtentCountReads ==
    [][IsExtentCountStep =>
          /\ last'.ret = Len(Chain(pages, meta_head))
                           + Cardinality({e \in LogEntries : ~ZappedOf(e)})
          /\ last'.ops = [NoCacheOps EXCEPT !.get = Len(Chain(pages, meta_head)),
                                            !.unget = Len(Chain(pages, meta_head))]
          /\ UNCHANGED <<phase, mini, pages, refcount, hist, thr, cachevars>>]_vars

\* extent_count has returned on a log of two meta pages that holds a zapped
\* entry and entries that are not zapped, with and without keys
C23_Witness ==
    /\ last.op = "extent_count"
    /\ Len(Chain(pages, meta_head)) = 2
    /\ \E e \in LogEntries : ZappedOf(e)
    /\ \E e \in LogEntries : ~ZappedOf(e) /\ StartKeyOf(e) = NullKey
    /\ \E e \in LogEntries : ~ZappedOf(e) /\ StartKeyOf(e) # NullKey
    /\ last.ret = Len(Chain(pages, meta_head)) + Cardinality({e \in LogEntries : ~ZappedOf(e)})

----------------------------------------------------------------------------
(* The values of a batch cursor.                                           *)

\* the base of the extent batch b is carving: the address returned by its
\* latest crossing alloc, 0 before the first
CarvedExtent(b) ==
    LET X == {i \in DOMAIN hist[b] : IsCrossing(hist[b][i].captured)}
    IN IF X = {} THEN 0
       ELSE hist[b][CHOOSE i \in X : \A j \in X : j <= i].addr

\* C24: in every reachable state and for every batch b, next_addr[b] is 0
\* (nothing vended yet), MINI_WAIT, or a page address of the extent being
\* carved past its base and up to its end; the end, one extent past the base,
\* is the value that makes the next alloc cross.
C24_CursorInCarvedExtent ==
    \A b \in Batches :
       \/ next_addr[b] = 0 /\ hist[b] = << >>
       \/ next_addr[b] = MINI_WAIT
       \/ /\ CarvedExtent(b) \in ExtentBases
          /\ \E k \in 1..PagesPerExtent : next_addr[b] = CarvedExtent(b) + k * PageSize

\* C24 as first stated: the cursor is 0, MINI_WAIT, a page address strictly
\* inside the extent being carved, or the base of next_extent[b].
C24_CursorAsStated ==
    \A b \in Batches :
       \/ next_addr[b] = 0
       \/ next_addr[b] = MINI_WAIT
       \/ \E k \in 1..(PagesPerExtent - 1) : next_addr[b] = CarvedExtent(b) + k * PageSize
       \/ next_addr[b] = next_extent[b]

\* one batch has vended the last page of its extent, its cursor standing at
\* the end of that extent and not at its reserved extent, while another batch
\* is held by a crossing alloc
C24_Witness ==
    \E b \in Batches, c \in Batches :
       /\ next_addr[b] = CarvedExtent(b) + ExtentSize
       /\ next_addr[b] # next_extent[b]
       /\ next_addr[c] = MINI_WAIT

----------------------------------------------------------------------------
(* The log is append-only.                                                 *)

\* the fields of entry e after the step
ExtentAfter(e) == EntryExtentAddr(pages'[e[1]], e[2])
StartKeyAfter(e) == meta_entry_start_key(pages'[e[1]], e[2])

\* C25: the log is append-only: the num_entries and the write offset of a meta
\* page never decrease, and once an entry is written its extent_addr and its
\* start_key never change; only end_key and zapped are written later.
C25_AppendOnly ==
    [][/\ \A a \in Range(Chain(pages, meta_head)) :
            /\ HdrNumEntries(pages'[a]) >= HdrNumEntries(pages[a])
            /\ HdrPos(pages'[a]) >= HdrPos(pages[a])
       /\ \A e \in LogEntries :
            /\ ExtentAfter(e) = ExtentOf(e)
            /\ StartKeyAfter(e) = StartKeyOf(e)]_vars

----------------------------------------------------------------------------
(* Meta-page overflow.                                                     *)

\* a step that is an alloc linking a new tail page
IsOverflowStep == phase = "open" /\ phase' = "open" /\ meta_tail' # meta_tail

\* the batch and the key of the alloc made by the step
StepBatch == CHOOSE b \in Batches : hist'[b] # hist[b]
StepKey == hist'[StepBatch][Len(hist'[StepBatch])].key

\* the entry of the old tail page that the alloc of the step back-patches
PatchedByStep(e) ==
    /\ ~slice_is_null(StepKey)
    /\ last_meta_addr[StepBatch] # 0
    /\ e = <<last_meta_addr[StepBatch], last_meta_pos[StepBatch]>>

\* the old tail is linked to a new page whose header is initialised, which
\* becomes meta_tail and holds the new entry as its first entry; every entry
\* lies inside its page; the old page keeps its entries and its write offset
OverflowLinksNewTail ==
    /\ meta_tail' \notin DOMAIN pages
    /\ HdrNextMetaAddr(pages'[meta_tail]) = meta_tail'
    /\ HdrNextMetaAddr(pages'[meta_tail']) = 0
    /\ HdrNumEntries(pages'[meta_tail']) = 1
    /\ HdrPos(pages'[meta_tail']) = SizeofMetaHdr + meta_entry_size(StepKey)
    /\ LogAfter = Append(Log, <<meta_tail', SizeofMetaHdr>>)
    /\ EntryExtentAddr(pages'[meta_tail'], SizeofMetaHdr) = next_extent[StepBatch]
    /\ meta_entry_start_key(pages'[meta_tail'], SizeofMetaHdr) = StepKey
    /\ \A i \in DOMAIN LogAfter :
          LogAfter[i][2] + sizeof_meta_entry(pages'[LogAfter[i][1]], LogAfter[i][2])
             <= PageSize
    /\ HdrNumEntries(pages'[meta_tail]) = HdrNumEntries(pages[meta_tail])
    /\ HdrPos(pages'[meta_tail]) = HdrPos(pages[meta_tail])
    /\ \A e \in LogEntries :
          /\ ExtentAfter(e) = ExtentOf(e)
          /\ StartKeyAfter(e) = StartKeyOf(e)
          /\ ZappedAfter(e) = ZappedOf(e)

\* the end_key of entry e after the step
EndKeyAfter(e) == meta_entry_end_key(pages'[e[1]], e[2])

\* C26: an alloc whose entry does not fit on the tail page sets the old tail's
\* next_meta_addr to the new page, initialises the new header, adopts the new
\* page as meta_tail and writes the entry as its first entry; no entry extends
\* past the end of its page, and the entries of the old page are unchanged but
\* for the end_key of the batch's previous keyed entry, which a keyed alloc
\* sets to its key.
C26_OverflowLinksPage ==
    [][IsOverflowStep =>
          /\ OverflowLinksNewTail
          /\ \A e \in LogEntries :
                EndKeyAfter(e) = (IF PatchedByStep(e) THEN StepKey ELSE EndKeyOf(e))]_vars

\* C26 as first stated: the entries of the old page are unchanged.
C26_OldPageUntouched ==
    [][IsOverflowStep =>
          /\ OverflowLinksNewTail
          /\ \A e \in LogEntries : EndKeyAfter(e) = EndKeyOf(e)]_vars

\* a keyed alloc has just put its entry first on a new tail page, and the
\* previous keyed entry of its batch, on the old page, ends at that key
C26_Witness ==
    /\ phase = "open" /\ last.op = "alloc"
    /\ meta_tail # meta_head
    /\ EntryOffsets(pages[meta_tail]) = <<SizeofMetaHdr>>
    /\ StartKeyOf(<<meta_tail, SizeofMetaHdr>>) # NullKey
    /\ \E b \in Batches :
          /\ last_meta_addr[b] = meta_tail
          /\ \E i \in DOMAIN hist[b] :
                /\ i < Len(hist[b])
                /\ IsCrossing(hist[b][i].captured) /\ hist[b][i].key # NullKey
                /\ \E e \in LogEntries :
                      /\ e[1] = meta_head
                      /\ ExtentOf(e) = hist[b][i].addr
                      /\ EndKeyOf(e) = StartKeyOf(<<meta_tail, SizeofMetaHdr>>)

----------------------------------------------------------------------------
(* Where meta pages are placed.                                            *)

\* the addresses returned by alloc and the extents the batches hold (vended
\* from or reserved) after the step
VendedAfter == {hist'[x[1]][x[2]].addr :
                   x \in {y \in Batches \X (1..MaxAllocs) : y[2] <= Len(hist'[y[1]])}}
BatchExtentsAfter ==
    {ExtentBaseOf(a) : a \in VendedAfter} \cup {next_extent'[b] : b \in Batches}

\* C27: the new meta page is the page after the old tail when that page lies
\* in the same extent, and otherwise the base of an extent obtained from the
\* extent allocator at that moment; and no meta page has an address returned
\* by alloc or lies inside an extent a batch has vended from or reserved.
C27_MetaPagePlacement ==
    [][/\ IsOverflowStep =>
            IF (meta_tail + PageSize) % ExtentSize # 0
            THEN meta_tail' = meta_tail + PageSize
            ELSE /\ meta_tail' \in ExtentBases
                 /\ refcount[meta_tail'] = 0
                 /\ refcount'[meta_tail'] = 1
       /\ \A a \in Range(Chain(pages', meta_head')) :
            /\ a \notin VendedAfter
            /\ ExtentBaseOf(a) \notin BatchExtentsAfter]_vars

\* the log has grown into a page at the base of a new extent while the batch
\* has vended from two extents and holds a third in reserve
C27_Witness ==
    /\ phase = "open"
    /\ meta_tail # meta_head /\ meta_tail \in ExtentBases
    /\ ExtentBaseOf(meta_head) # meta_tail
    /\ \E b \in Batches :
          /\ Cardinality({ExtentBaseOf(hist[b][i].addr) : i \in DOMAIN hist[b]}) >= 2
          /\ next_extent[b] \in ExtentBases

----------------------------------------------------------------------------
(* The reserve reported by alloc.                                          *)

\* the crossing allocs of batch b made after its i-th alloc
LaterCrossings(b, i) == {j \in DOMAIN hist[b] : j > i /\ hist[b][j].cross}

\* C28: the value alloc reports through next_extent, in the crossing and in
\* the non-crossing case, is the batch's reserved extent as the call leaves
\* it: the address returned by the next crossing alloc on the batch, and the
\* batch's next_extent as long as no alloc on the batch has crossed since.
C28_ReportsReserve ==
    \A b \in Batches : \A i \in DOMAIN hist[b] :
       /\ hist[b][i].out \in ExtentBases
       /\ IF LaterCrossings(b, i) = {}
          THEN hist[b][i].out = next_extent[b]
          ELSE hist[b][CHOOSE j \in LaterCrossings(b, i) :
                          \A k \in LaterCrossings(b, i) : j <= k].addr = hist[b][i].out

\* a batch has crossed, vended inside the extent and crossed again: the two
\* first calls reported the address the third returned, and the third reports
\* the reserve the batch holds now
C28_Witness ==
    \E b \in Batches :
       /\ Len(hist[b]) >= 3
       /\ hist[b][1].cross /\ ~hist[b][2].cross /\ hist[b][3].cross
       /\ hist[b][1].out = hist[b][3].addr
       /\ hist[b][2].out = hist[b][3].addr
       /\ hist[b][3].out # hist[b][3].addr
       /\ hist[b][3].out = next_extent[b]
       /\ \E t \in Threads : thr[t].pc # "idle"

\* the reserve reported by a call made from one caller at a time is the
\* batch's reserve when the call returns
ReportsReserveAtReturn ==
    [][\A b \in Batches :
          hist'[b] # hist[b] => hist'[b][Len(hist'[b])].out = next_extent'[b]]_vars

----------------------------------------------------------------------------
(* The batch sentinel and the meta entry append.                           *)

\* thread t is in the meta entry append of a crossing alloc (lines 170-279)
InAppend(t) ==
    thr[t].pc \in {"read_tail", "get_tail", "claim_tail", "lock_tail", "append",
                   "get_last", "claim_last", "lock_last", "finish"}

\* every page vended from inside an extent belongs to an extent whose entry
\* is in the log
VendedAfterEntry ==
    \A b \in Batches : \A i \in DOMAIN hist[b] :
       ~hist[b][i].cross =>
          \E e \in LogEntries : ExtentOf(e) = ExtentBaseOf(hist[b][i].addr)

\* C29: a crossing alloc on batch b keeps next_addr[b] = MINI_WAIT for the
\* whole of its meta entry append, so that no other alloc on b returns a page
\* of the new extent before the entry is written.
C29_SentinelHeldDuringAppend ==
    /\ \A t \in Threads : InAppend(t) => next_addr[thr[t].batch] = MINI_WAIT
    /\ VendedAfterEntry

----------------------------------------------------------------------------
(* The tail recheck.                                                       *)

\* C30: in every interleaving of crossing allocs, a thread that has obtained
\* the claim and the lock on the page it pinned as the tail (the assertion of
\* line 189) holds the page that is meta_tail, and meta_tail is changed only
\* by a thread that holds the lock on the page that is meta_tail at that
\* moment.
C30_TailLockedIsTail ==
    [][/\ \A t \in Threads :
            thr'[t].pc = "append" =>
               /\ thr'[t].tail = meta_tail'
               /\ <<meta_tail', t>> \in locked' \cap claimed' \cap pins'
       /\ meta_tail' # meta_tail =>
            \E t \in Threads :
               /\ thr[t].pc = "append" /\ thr'[t] # thr[t]
               /\ <<meta_tail, t>> \in locked]_vars

\* a thread has linked a new tail page and holds its lock, while the other
\* thread has pinned as tail the page that is the tail no more
C30_Witness ==
    \E t \in Threads, u \in Threads :
       /\ thr[t].pc \in {"get_last", "finish"}
       /\ <<meta_tail, t>> \in locked
       /\ meta_tail # meta_head
       /\ thr[u].pc = "claim_tail" /\ thr[u].tail # meta_tail

----------------------------------------------------------------------------
(* Integrity of the log under concurrent allocs.                           *)

\* sequence s is a prefix of sequence u
IsPrefix(s, u) == Len(s) <= Len(u) /\ \A i \in DOMAIN s : u[i] = s[i]

\* the extents alloc has returned pages from
VendedExtents == {ExtentBaseOf(hist[x[1]][x[2]].addr) : x \in AllocIds}

\* C31: whenever no alloc is in progress, the walk of next_meta_addr from
\* meta_head visits each meta page once and ends at meta_tail, the only page
\* whose next_meta_addr is 0, and the extents named by the entries visited are
\* exactly the extents alloc has returned pages from; and no step makes a page
\* that was in the chain or an entry that was in the log unreachable.
C31_LogIntegrity ==
    [][/\ IsPrefix(Chain(pages, meta_head), Chain(pages', meta_head'))
       /\ IsPrefix(Log, LogAfter)
       /\ (\A t \in Threads : thr'[t].pc = "idle") =>
             LET ch == Chain(pages', meta_head') IN
             /\ \A i \in DOMAIN ch, j \in DOMAIN ch : i # j => ch[i] # ch[j]
             /\ Range(ch) = DOMAIN pages'
             /\ ch[Len(ch)] = meta_tail'
             /\ \A a \in DOMAIN pages' : HdrNextMetaAddr(pages'[a]) = 0 <=> a = meta_tail'
             /\ {EntryExtentAddr(pages'[e[1]], e[2]) : e \in Range(LogAfter)}
                   = {ExtentBaseOf(hist'[x[1]][x[2]].addr) :
                         x \in {y \in Batches \X (1..MaxAllocs) : y[2] <= Len(hist'[y[1]])}}
             /\ Len(LogAfter)
                   = Cardinality({x \in Batches \X (1..MaxAllocs) :
                                     x[2] <= Len(hist'[x[1]]) /\ hist'[x[1]][x[2]].cross})]_vars

\* no call is in progress on a log of three meta pages written by calls of
\* both threads' batches
C31_Witness ==
    /\ AllIdle
    /\ Len(Chain(pages, meta_head)) >= 3
    /\ Len(Log) >= 3
    /\ \A b \in Batches : hist[b] # << >>
    /\ VendedExtents = {ExtentOf(e) : e \in LogEntries}

----------------------------------------------------------------------------
(* The cache calls each handler makes on the meta pages, in program order. *)
(* A call is <<name, page>>; "write" is a store to the page's header or    *)
(* entries.                                                                *)

\* lines 176/187, 234-241, 304-310, 98-104 and 397-406: cache_get, cache_claim
\* and cache_lock on page a (a failed claim repeats from the start)
AcquireCalls(a) == << <<"get", a>>, <<"claim", a>>, <<"lock", a>> >>

\* faulty variant: the pin is dropped before the lock
ReleaseCallsUngetFirst(a) ==
    << <<"unget", a>>, <<"mark_dirty", a>>, <<"unlock", a>>, <<"unclaim", a>> >>

\* lines 121-124, 204-207, 276-279, 317-320 and 452-455: cache_mark_dirty,
\* cache_unlock, cache_unclaim and cache_unget on page a
ReleaseCalls(a) ==
    << <<"mark_dirty", a>>, <<"unlock", a>>, <<"unclaim", a>>, <<"unget", a>> >>

\* lines 91-124: init on meta page head (fresh, tail = 0) or tail (loaded)
MiniInitCalls(head, tail) ==
    IF tail = 0
    THEN << <<"alloc", head>>, <<"write", head>> >> \o ReleaseCalls(head)
    ELSE AcquireCalls(tail) \o ReleaseCalls(tail)

\* lines 176-279: a crossing alloc of batch b with key, from the state before it
AllocCalls(b, key) ==
    LET tail == meta_tail
        grows == NeedNewMetaPage(pages[tail], key)
        cur == IF grows THEN NewMetaTail(tail, AllocExtentRc(refcount)) ELSE tail
        lma == last_meta_addr[b]
        fixup == NeedsFixup(key, lma)
        other == FixupOnOtherPage(key, lma, cur)
    IN AcquireCalls(tail)
       \o (IF grows
           THEN << <<"write", tail>>, <<"alloc", cur>> >> \o ReleaseCalls(tail)
                \o << <<"write", cur>> >>
           ELSE << >>)
       \o << <<"write", cur>> >>
       \o (IF fixup
           THEN (IF other THEN AcquireCalls(lma) ELSE << >>)
                \o << <<"write", lma>>, <<"mark_dirty", lma>> >>
                \o (IF other
                    THEN << <<"unlock", lma>>, <<"unclaim", lma>>, <<"unget", lma>> >>
                    ELSE << >>)
           ELSE << >>)
       \o << <<"write", cur>> >>
       \o ReleaseCalls(cur)

\* lines 297-322: release with key, batch b onwards
RECURSIVE MiniReleaseCalls(_, _)
MiniReleaseCalls(key, b) ==
    IF b >= NumBatches THEN << >>
    ELSE (IF ~slice_is_null(key) /\ last_meta_addr[b] # 0
          THEN AcquireCalls(last_meta_addr[b])
               \o << <<"write", last_meta_addr[b]>> >>
               \o ReleaseCalls(last_meta_addr[b])
          ELSE << >>)
         \o MiniReleaseCalls(key, b + 1)

\* lines 396-474: a traversal that ran to its end over the pages ch, having
\* stored the zapped flag of the entries calls; the second pass only reads
RECURSIVE ForEachCalls(_, _, _, _)
ForEachCalls(ch, i, calls, second) ==
    IF i > Len(ch)
    THEN (IF second
          THEN LET RECURSIVE Reads(_)
                   Reads(j) == IF j > Len(ch) THEN << >>
                               ELSE << <<"get", ch[j]>>, <<"unget", ch[j]>> >>
                                    \o Reads(j + 1)
               IN Reads(1)
          ELSE << >>)
    ELSE LET a == ch[i]
             stored == SelectSeq(calls, LAMBDA c : c[1] = a)
         IN AcquireCalls(a)
            \o [k \in 1..Len(stored) |-> <<"write", a>>]
            \o ReleaseCalls(a)
            \o ForEachCalls(ch, i + 1, calls, second)

\* what a thread holds on one page after one more call; "bad" when the call
\* is made out of order
PageStep(s, op) ==
    CASE s = "free" /\ op = "get" -> "pinned"
      [] s = "free" /\ op = "alloc" -> "locked"
      [] s = "pinned" /\ op = "claim" -> "claimed"
      [] s = "pinned" /\ op = "unget" -> "free"
      [] s = "claimed" /\ op = "lock" -> "locked"
      [] s \in {"locked", "written", "marked"} /\ op = "write" -> "written"
      [] s \in {"locked", "written", "marked"} /\ op = "mark_dirty" -> "marked"
      [] s \in {"locked", "marked"} /\ op = "unlock" -> "unlocked"
      [] s = "unlocked" /\ op = "unclaim" -> "unclaimed"
      [] s = "unclaimed" /\ op = "unget" -> "free"
      [] OTHER -> "bad"

RECURSIVE HoldsAfter(_, _, _)
HoldsAfter(tr, i, h) ==
    IF i > Len(tr) THEN h
    ELSE HoldsAfter(tr, i + 1, [h EXCEPT ![tr[i][2]] = PageStep(@, tr[i][1])])

\* every write is made under pin, claim and lock taken in that order, every
\* written page is given back by mark_dirty, unlock, unclaim, unget, and
\* nothing stays held
WellHeld(tr) ==
    LET ps == {tr[i][2] : i \in DOMAIN tr}
        h == HoldsAfter(tr, 1, [a \in ps |-> "free"])
    IN \A a \in ps : h[a] = "free"

\* the calls made by the handler that takes the step
StepCalls ==
    IF phase = "new" /\ phase' = "open" THEN MiniInitCalls(meta_head', 0)
    ELSE IF phase = "closed" /\ phase' = "open" THEN MiniInitCalls(meta_head, meta_tail)
    ELSE IF phase = "open" /\ phase' = "closed" THEN MiniReleaseCalls(last'.key, 0)
    ELSE IF phase = "open" /\ hist' # hist
    THEN (IF hist'[StepBatch][Len(hist'[StepBatch])].cross
          THEN AllocCalls(StepBatch, StepKey) ELSE << >>)
    ELSE IF phase = "closed" /\ last' # last /\ ~last'.aborted
    THEN ForEachCalls(Chain(pages, meta_head), 1, last'.calls,
                      last'.ret /\ last'.calls2 # << >>)
    ELSE << >>

\* C32: every store to a meta page's header or entries, by init, alloc,
\* release or a traversal, is made while the caller holds the pin, the claim
\* and the lock on that page, taken in the order pin, claim, lock (a page
\* from cache_alloc counts as held), and every page is given back in the
\* order mark_dirty, unlock, unclaim, unget.
C32_WritesUnderLock == [][WellHeld(StepCalls)]_vars

\* a zap has stored flags on two meta pages of a log that an alloc grew
C32_Witness ==
    /\ phase \in {"closed", "freed"}
    /\ last.op = "zap"
    /\ ~last.aborted
    /\ Len(Chain(pages, meta_head)) >= 2
    /\ \E i, j \in DOMAIN last.calls : last.calls[i][1] # last.calls[j][1]


\* among running threads: a step that stores to a meta page is taken by a
\* thread that holds pin, claim and lock on it (on a page from cache_alloc,
\* once the step is taken), and a lock is held only under a claim, a claim
\* only under a pin
WritersHoldLock ==
    [][/\ locked' \subseteq claimed' /\ claimed' \subseteq pins'
       /\ (phase = "open" /\ phase' = "open") =>
             \A a \in DOMAIN pages' :
                IF a \in DOMAIN pages
                THEN pages'[a] # pages[a] =>
                        \E t \in Threads : <<a, t>> \in pins \cap claimed \cap locked
                ELSE \E t \in Threads : <<a, t>> \in pins' \cap claimed' \cap locked']_vars

----------------------------------------------------------------------------
(* Waiting for a claim.                                                    *)

\* the page whose claim alloc thread t is waiting for
ClaimTarget(t) ==
    IF thr[t].pc = "claim_tail" THEN thr[t].tail ELSE last_meta_addr[thr[t].batch]

\* C33: a thread whose cache_claim on a meta page fails drops its pin on the
\* page before it tries again: whenever a thread is in a claim loop and the
\* claim is held by another thread, its next step is possible and gives up
\* the pin.
C33_FailedClaimDropsPin ==
    /\ \A t \in Threads :
          (thr[t].pc \in {"claim_tail", "claim_last"} /\ ~CanClaim(ClaimTarget(t)))
             => ENABLED (AllocStep(t) /\ <<ClaimTarget(t), t>> \notin pins')
    /\ (thr[Traverser].pc = "t_claim" /\ ~CanClaim(thr[Traverser].addr))
             => ENABLED (TravStep /\ <<thr[Traverser].addr, Traverser>> \notin pins')

\* the same for the loops of lines 176-185 and 397-404 alone
FailedClaimDropsPinTailAndTraversal ==
    /\ \A t \in Threads :
          (thr[t].pc = "claim_tail" /\ ~CanClaim(ClaimTarget(t)))
             => ENABLED (AllocStep(t) /\ <<ClaimTarget(t), t>> \notin pins')
    /\ (thr[Traverser].pc = "t_claim" /\ ~CanClaim(thr[Traverser].addr))
             => ENABLED (TravStep /\ <<thr[Traverser].addr, Traverser>> \notin pins')

----------------------------------------------------------------------------
(* The end-key fixup on the page held for the append.                      *)

\* the meta pages on which thread t has a hold in the set s
HeldBy(s, t) == {x[1] : x \in {y \in s : y[2] = t}}

\* C34: an alloc never calls cache_get, cache_claim or cache_lock on a meta
\* page it already holds locked: it goes to acquire the page of the batch's
\* previous entry only when that page is not the one held for the append;
\* when it is the held page, the end key is stored through the hold it has,
\* and on return each page the thread holds is pinned, claimed and locked
\* once and all of them are given back.
C34_NoReacquire ==
    [][\A t \in Threads :
          LET b == thr[t].batch
              a == last_meta_addr[b]
              key == thr[t].key
          IN /\ thr'[t].pc \in {"get_last", "claim_last", "lock_last"} =>
                   /\ a # thr'[t].tail
                   /\ <<a, t>> \notin locked'
                   /\ <<thr'[t].tail, t>> \in locked'
             /\ thr'[t].pc = "claim_last" => <<a, t>> \notin claimed'
             /\ thr'[t].pc = "get_last" => <<a, t>> \notin pins'
             /\ (thr[t].pc = "append" /\ thr'[t].pc = "finish" /\ NeedsFixup(key, a)) =>
                   /\ a = thr'[t].tail
                   /\ HeldBy(pins', t) = {a}
             /\ (thr[t].pc = "finish" /\ thr'[t].pc = "idle") =>
                   /\ HeldBy(pins, t) = {thr[t].tail} \cup
                         (IF NeedsFixup(key, a) THEN {a} ELSE {})
                   /\ HeldBy(claimed, t) = HeldBy(pins, t)
                   /\ HeldBy(locked, t) = HeldBy(pins, t)
                   /\ HeldBy(pins' \cup claimed' \cup locked', t) = {}
                   /\ NeedsFixup(key, a) =>
                         meta_entry_end_key(pages'[a], last_meta_pos[b]) = key]_vars

\* a thread about to store the end key of the batch's previous entry, which
\* lies on the page it holds for the append
C34_Witness ==
    \E t \in Threads :
       /\ thr[t].pc = "finish"
       /\ NeedsFixup(thr[t].key, last_meta_addr[thr[t].batch])
       /\ last_meta_addr[thr[t].batch] = thr[t].tail
       /\ HeldBy(locked, t) = {thr[t].tail}
       /\ \E u \in Threads : thr[u].pc \in {"get_tail", "claim_tail"}

\* a thread that has acquired the older page of the batch's previous entry
FixupOnOlderPage ==
    \E t \in Threads :
       /\ thr[t].pc = "finish"
       /\ Cardinality(HeldBy(locked, t)) = 2

----------------------------------------------------------------------------
(* Two calls of mini_allocator_zap running on the same closed log. A page  *)
(* is visited under its write lock (lines 397-406), so the visit of one    *)
(* page by one call is one step; between two pages, and between the pages  *)
(* of the second pass, the other call can run.                             *)

Zappers == {3, 4}

IdleZapper == [pc |-> "idle", addr |-> 0, fully_zapped |-> TRUE,
               start_key |-> NullKey, end_key |-> NullKey]

InitZap ==
    /\ phase = "new"
    /\ meta_head = 0
    /\ meta_tail = 0
    /\ next_addr = ZeroBatch
    /\ next_extent = ZeroBatch
    /\ last_meta_addr = ZeroBatch
    /\ last_meta_pos = ZeroBatch
    /\ pages = [a \in {} |-> EmptyMem]
    /\ refcount = InitRc
    /\ hist = [b \in Batches |-> << >>]
    /\ last = [op |-> "none"]
    /\ thr = [t \in Threads \cup Zappers |-> IF t \in Zappers THEN IdleZapper ELSE IdleThread]
    /\ pins = {}
    /\ claimed = {}
    /\ locked = {}

\* lines 389-395: mini_allocator_zap(cc, cfg, meta_head, start_key, end_key, type)
ZapStart(z, start_key, end_key) ==
    /\ phase = "closed"
    /\ thr[z].pc = "idle"
    /\ thr' = [thr EXCEPT ![z] = [pc |-> "z_visit", addr |-> meta_head, fully_zapped |-> TRUE,
                                  start_key |-> start_key, end_key |-> end_key]]
    /\ UNCHANGED <<phase, mini, pages, refcount, hist, last, cachevars>>

\* lines 396-459: one page of the primary pass, under its lock
ZapVisit(z) ==
    LET a == thr[z].addr
        st0 == [pages |-> pages, refcount |-> refcount,
                fully_zapped |-> thr[z].fully_zapped, ret |-> FALSE,
                calls |-> << >>, calls2 |-> << >>, aborted |-> FALSE, count |-> 0,
                visited |-> 0, visited2 |-> 0]
        st1 == ForEachEntries("zap", st0, a, 0, first_entry,
                              thr[z].start_key, thr[z].end_key)
        next_meta_addr == HdrNextMetaAddr(st1.pages[a])
    IN /\ phase = "closed"
       /\ thr[z].pc = "z_visit"
       /\ pages' = st1.pages
       /\ refcount' = st1.refcount
       /\ phase' = (IF st1.aborted THEN "aborted" ELSE phase)
       /\ thr' = [thr EXCEPT ![z] =
                     IF st1.aborted THEN [@ EXCEPT !.pc = "stopped"]
                     ELSE IF next_meta_addr # 0
                     THEN [@ EXCEPT !.addr = next_meta_addr,
                                    !.fully_zapped = st1.fully_zapped]
                     ELSE IF st1.fully_zapped
                     THEN [@ EXCEPT !.pc = "z_meta", !.addr = meta_head]
                     ELSE [@ EXCEPT !.pc = "done", !.fully_zapped = FALSE]]
       /\ UNCHANGED <<mini, hist, last, cachevars>>

\* lines 462-473: one meta page of the second pass; cache_dealloc of an
\* extent that is already free stops the program
ZapMeta(z) ==
    LET a == thr[z].addr
        next_meta_addr == HdrNextMetaAddr(pages[a])
        last_of_extent == ~mini_allocator_addrs_share_extent(a, next_meta_addr)
        twice == last_of_extent /\ refcount[ExtentBaseOf(a)] = 0
    IN /\ phase = "closed"
       /\ thr[z].pc = "z_meta"
       /\ refcount' = (IF last_of_extent /\ ~twice
                       THEN DeallocRc(refcount, ExtentBaseOf(a)) ELSE refcount)
       /\ phase' = (IF twice THEN "aborted" ELSE phase)
       /\ thr' = [thr EXCEPT ![z] =
                     IF twice THEN [@ EXCEPT !.pc = "stopped_meta"]
                     ELSE IF next_meta_addr # 0 THEN [@ EXCEPT !.addr = next_meta_addr]
                     ELSE [@ EXCEPT !.pc = "done"]]
       /\ UNCHANGED <<mini, pages, hist, last, cachevars>>

NextZap ==
    \/ InitFresh
    \/ \E key \in OneKeyOrNone : Alloc(0, key)
    \/ Release(NullKey)
    \/ \E z \in Zappers, start_key \in Keys, end_key \in Keys : ZapStart(z, start_key, end_key)
    \/ \E z \in Zappers : ZapVisit(z)
    \/ \E z \in Zappers : ZapMeta(z)

SpecZap == InitZap /\ [][NextZap]_vars

\* the greatest key of the range of zapper z; a range with a null end key is
\* the point start_key
RangeHigh(z) == IF slice_is_null(thr[z].end_key) THEN thr[z].start_key ELSE thr[z].end_key

\* both zaps have been called on a log that has entries, and their key
\* ranges are disjoint: one lies wholly below the other, which has a start key
DisjointZaps ==
    /\ \A z \in Zappers : thr[z].pc # "idle"
    /\ Log # << >>
    /\ \E y, z \in Zappers :
          /\ ~slice_is_null(RangeHigh(y))
          /\ ~slice_is_null(thr[z].start_key)
          /\ data_key_compare(RangeHigh(y), thr[z].start_key) < 0
          /\ (slice_is_null(thr[y].start_key) \/ KeyLeq(thr[y].start_key, RangeHigh(y)))
          /\ KeyLeq(thr[z].start_key, RangeHigh(z))

\* the zaps that found the log fully zapped
FullyZappers == {z \in Zappers : thr[z].pc \in {"z_meta", "stopped_meta", "done"}
                                    /\ thr[z].fully_zapped}

\* C35: of two concurrent zaps on disjoint key ranges of one log, at most one
\* finds the log fully zapped, and no extent of a meta page is deallocated
\* twice.
C35_AtMostOneFullyZapped ==
    DisjointZaps =>
       /\ Cardinality(FullyZappers) <= 1
       /\ \A z \in Zappers : thr[z].pc # "stopped_meta"

\* two zaps on disjoint ranges have run to the end without stopping, and
\* every entry of a log of two pages is zapped
DisjointZapsDone ==
    /\ DisjointZaps
    /\ phase = "closed"
    /\ \A z \in Zappers : thr[z].pc = "done"
    /\ Len(Chain(pages, meta_head)) >= 2
    /\ \A e \in LogEntries : ZappedOf(e)

----------------------------------------------------------------------------
(* The retry loops: the batch sentinel (lines 142-151), the tail claim     *)
(* (176-185), the end-key fixup claim (235-239), the release claim         *)
(* (305-309), the load claim (98-103) and the traversal claim (391-405).   *)
(* Every loop keeps its sleep duration in a local variable wait.           *)

\* a loop gives up being followed after this many failed attempts
MaxFails == 16

RetryLoops == {"sentinel", "tail", "fixup", "release", "load", "traversal"}

\* lines 142, 98, 152/186 (fixup), 304 and 391: uint64 wait = 1
InitialWait == 1

\* the constant of the comparison of lines 148, 102, 183, 237, 307 and 402
WaitLimit == 1024

\* faulty variant: the duration stops growing once it has reached the limit
NextWaitAtLimit(wait) == IF wait >= WaitLimit THEN wait ELSE 2 * wait

\* line 148 (and 102, 183, 237, 307, 402): wait = wait > 1024 ? wait : 2 * wait
NextWait(wait) == IF wait > WaitLimit THEN wait ELSE 2 * wait

\* no call has been made yet; the only thing followed is the loop a caller is in
InitRetry ==
    /\ InitNew
    /\ last = [op |-> "none"]

\* a caller reaches one of the loops
RetryEnter(loop) ==
    /\ last.op \in {"none", "acquired"}
    /\ last' = [op |-> "retry", loop |-> loop, wait |-> InitialWait, fails |-> 0, slept |-> 0]
    /\ UNCHANGED <<phase, mini, pages, refcount, hist, thr, cachevars>>

\* the attempt fails: platform_sleep(wait), then the update of wait
RetryFail ==
    /\ last.op = "retry"
    /\ last.fails < MaxFails
    /\ last' = [last EXCEPT !.slept = last.wait, !.wait = NextWait(last.wait),
                            !.fails = @ + 1]
    /\ UNCHANGED <<phase, mini, pages, refcount, hist, thr, cachevars>>

\* the attempt succeeds and the loop is left
RetryDone ==
    /\ last.op = "retry"
    /\ last' = [op |-> "acquired", loop |-> last.loop, fails |-> last.fails]
    /\ UNCHANGED <<phase, mini, pages, refcount, hist, thr, cachevars>>

NextRetry ==
    \/ \E loop \in RetryLoops : RetryEnter(loop)
    \/ RetryFail
    \/ RetryDone

SpecRetry == InitRetry /\ [][NextRetry]_vars

RECURSIVE Pow2(_)
Pow2(n) == IF n = 0 THEN 1 ELSE 2 * Pow2(n - 1)

----------------------------------------------------------------------------
(* Allocs without key between allocs with key.                             *)

\* the step is an alloc that crossed an extent boundary
IsCrossingStep ==
    /\ phase = "open"
    /\ hist' # hist
    /\ hist'[StepBatch][Len(hist'[StepBatch])].cross

\* the crossing allocs of batch b, in the order made
Crossings(b) == SelectSeq(hist[b], LAMBDA h : h.cross)

\* C37: a crossing alloc with a null key appends an entry whose start_key and
\* end_key are empty, changes no earlier entry and leaves last_meta_addr and
\* last_meta_pos of its batch as they were; a crossing alloc with a key
\* stores its key as the end_key of the batch's last entry appended with a
\* key, whatever entries without key were appended since, and changes no
\* other earlier entry.
C37_NullKeySkipped ==
    [][IsCrossingStep =>
          LET b == StepBatch
              new == LogAfter[Len(LogAfter)]
              kc == KeyedCrossings(b)
          IN /\ Len(LogAfter) = Len(Log) + 1
             /\ StartKeyAfter(new) = StepKey
             /\ IF slice_is_null(StepKey)
                THEN /\ EndKeyAfter(new) = NullKey
                     /\ \A e \in LogEntries : EntryKept(e)
                     /\ last_meta_addr'[b] = last_meta_addr[b]
                     /\ last_meta_pos'[b] = last_meta_pos[b]
                ELSE /\ <<last_meta_addr'[b], last_meta_pos'[b]>> = new
                     /\ kc # << >> =>
                           LET prev == EntryOfExtent(kc[Len(kc)].addr) IN
                           /\ prev = <<last_meta_addr[b], last_meta_pos[b]>>
                           /\ StartKeyOf(prev) = kc[Len(kc)].key
                           /\ EndKeyAfter(prev) = StepKey
                           /\ \A e \in LogEntries \ {prev} : EntryKept(e)
                     /\ kc = << >> => \A e \in LogEntries : EntryKept(e)]_vars

\* batch b crossed with a key, then without, then with another key, and the
\* first entry has the third key as its end_key while the second has none
C37_Witness ==
    /\ phase = "open"
    /\ \E b \in Batches :
          LET cr == Crossings(b) IN
          /\ Len(cr) = 3
          /\ ~slice_is_null(cr[1].key)
          /\ slice_is_null(cr[2].key)
          /\ ~slice_is_null(cr[3].key)
          /\ cr[3].key # cr[1].key
          /\ EndKeyOf(EntryOfExtent(cr[1].addr)) = cr[3].key
          /\ EndKeyOf(EntryOfExtent(cr[2].addr)) = NullKey

----------------------------------------------------------------------------
(* A log closed with a key of the greatest length, opened again and        *)
(* extended.                                                               *)

NextReopen ==
    \/ InitFresh
    \/ \E b \in Batches, key \in OneKeyOrNone : Alloc(b, key)
    \/ ReleaseCallLong
    \/ InitLoad

SpecReopen == InitNew /\ [][NextReopen]_vars

\* the entry appended by the step, and the page it is on
NewEntry == LogAfter[Len(LogAfter)]

\* the fields of the entry a crossing alloc with a key appends, but for its
\* end_key
KeyedEntryAppended ==
    LET b == StepBatch
        rec == hist'[b][Len(hist'[b])]
        new == NewEntry
    IN /\ Len(LogAfter) = Len(Log) + 1
       /\ new[1] = meta_tail'
       /\ ExtentAfter(new) = rec.addr
       /\ ~ZappedAfter(new)
       /\ StartKeyAfter(new) = StepKey
       /\ IF meta_tail' = meta_tail
          THEN /\ HdrNumEntries(pages'[meta_tail]) = HdrNumEntries(pages[meta_tail]) + 1
               /\ HdrPos(pages'[meta_tail])
                     = HdrPos(pages[meta_tail]) + SizeofMetaEntry + slice_length(StepKey)
          ELSE /\ HdrNumEntries(pages'[meta_tail']) = 1
               /\ HdrPos(pages'[meta_tail'])
                     = SizeofMetaHdr + SizeofMetaEntry + slice_length(StepKey)

\* C38: right after a crossing alloc with key k returns address a, the log
\* has a new entry with extent_addr = a, zapped = false, start_key = k and an
\* empty end_key, whatever the page held before; num_entries has grown by one
\* and the write offset by the size of the entry header plus the length of k.
C38_KeyedEntryFresh ==
    [][(IsCrossingStep /\ ~slice_is_null(StepKey)) =>
          /\ KeyedEntryAppended
          /\ EndKeyAfter(NewEntry) = NullKey]_vars

\* the same without the end_key of the new entry
KeyedEntryButEndKey ==
    [][(IsCrossingStep /\ ~slice_is_null(StepKey)) => KeyedEntryAppended]_vars

----------------------------------------------------------------------------
(* Calls that break the contract: a batch number that is not a batch, a    *)
(* key longer than MAX_INLINE_KEY_SIZE.                                    *)

\* a key one byte longer than the calls accept
TooLongKey == [i \in 1..(MAX_INLINE_KEY_SIZE + 1) |-> 1]

\* faulty variant: the assertion fails after the batch's reserve was replaced
FatalAssertAfterReserve(call, b, key) ==
    /\ phase' = "aborted"
    /\ last' = [op |-> "assert", call |-> call, batch |-> b, key |-> key]
    /\ refcount' = AllocExtentRc(refcount)
    /\ UNCHANGED <<mini, pages, hist, thr, cachevars>>

\* platform_assert fails: the program stops where it is
FatalAssert(call, b, key) ==
    /\ phase' = "aborted"
    /\ last' = [op |-> "assert", call |-> call, batch |-> b, key |-> key]
    /\ UNCHANGED <<mini, pages, refcount, hist, thr, cachevars>>

\* lines 135-136, then the call
AllocOrAbort(b, key) ==
    /\ phase = "open"
    /\ IF ~(b < NumBatches) \/ ~(slice_length(key) <= MAX_INLINE_KEY_SIZE)
       THEN FatalAssert("alloc", b, key)
       ELSE Alloc(b, key)

\* line 295, then the call
ReleaseOrAbort(key) ==
    /\ phase = "open"
    /\ IF ~(slice_length(key) <= MAX_INLINE_KEY_SIZE)
       THEN FatalAssert("release", 0, key)
       ELSE Release(key)

NextContract ==
    \/ InitFresh
    \/ \E b \in Batches \cup {NumBatches}, key \in OneKeyOrNone \cup {TooLongKey} :
          AllocOrAbort(b, key)
    \/ \E key \in OneKeyOrNone \cup {TooLongKey} : ReleaseOrAbort(key)

SpecContract == InitNew /\ [][NextContract]_vars

\* the call of the step breaks the contract
BreaksContract ==
    /\ phase = "open"
    /\ phase' = "aborted"
    /\ \/ /\ last'.call = "alloc"
          /\ last'.batch >= NumBatches \/ Len(last'.key) > MAX_INLINE_KEY_SIZE
       \/ /\ last'.call = "release"
          /\ Len(last'.key) > MAX_INLINE_KEY_SIZE

\* C39: an alloc with batch >= num_batches or with a key longer than 256
\* bytes, and a release with a key longer than 256 bytes, stop the program
\* by a fatal assertion with nothing done: no sentinel taken, no extent
\* reserved or freed, no meta page pinned or written; and a call within the
\* contract is never stopped by these assertions.
C39_AssertBeforeEffect ==
    [][/\ BreaksContract =>
             /\ next_addr' = next_addr
             /\ next_extent' = next_extent
             /\ refcount' = refcount
             /\ pages' = pages
             /\ <<meta_head', meta_tail', last_meta_addr', last_meta_pos'>>
                   = <<meta_head, meta_tail, last_meta_addr, last_meta_pos>>
             /\ hist' = hist
             /\ cachevars' = cachevars
       /\ (phase = "open" /\ phase' = "aborted") => BreaksContract
       /\ (phase = "open" /\ phase' # "aborted") => last'.op \in {"alloc", "release"}]_vars

\* an alloc on a batch that does not exist has stopped a log with entries on
\* two pages
C39_Witness ==
    /\ phase = "aborted"
    /\ last.op = "assert"
    /\ last.call = "alloc"
    /\ last.batch = NumBatches
    /\ Len(Chain(pages, meta_head)) >= 2

\* a release with a key of 257 bytes has stopped the program
ReleaseStopped ==
    /\ phase = "aborted"
    /\ last.call = "release"
    /\ Len(last.key) = MAX_INLINE_KEY_SIZE + 1
    /\ Log # << >>

----------------------------------------------------------------------------
(* Opening and closing a log without allocating from it.                   *)

\* the refcounts of the extents a closed log accounts for: one reference on
\* every extent that holds a meta page (the caller's extent holds meta_head)
\* and on every extent named by an entry, none on any other extent
LogRefcountOf(pgs, head) ==
    LET ch == Chain(pgs, head)
        named == {EntryExtentAddr(pgs[e[1]], e[2]) : e \in Range(LogOf(pgs, ch))}
        meta == {ExtentBaseOf(a) : a \in Range(ch)}
    IN [x \in ExtentBases |-> IF x \in named \cup meta THEN 1 ELSE 0]

\* C40: init, fresh or load, followed at once by release leaves the refcount
\* of every extent as it was before the init and adds no entry to the log:
\* before a load the refcounts are those the closed log accounts for, before
\* a fresh init those of the caller's extent alone, and after the release
\* that follows the init they are the same again, with the log and the meta
\* pages unchanged.
C40_OpenCloseNoLeak ==
    [][/\ (phase = "new" /\ IsInitStep) =>
             /\ refcount = InitRc
             /\ LogAfter = << >>
       /\ (phase = "closed" /\ IsInitStep) =>
             /\ refcount = LogRefcountOf(pages, meta_head)
             /\ LogAfter = Log
             /\ pages' = pages
       /\ (phase = "open" /\ phase' = "closed" /\ last.op = "init") =>
             /\ LogAfter = Log
             /\ pages' = pages
             /\ refcount' = (IF last.tail = 0 THEN InitRc
                             ELSE LogRefcountOf(pages, meta_head))]_vars

\* a log with entries on two pages has been opened and closed again without
\* an alloc, and holds the references of its entries and pages only
C40_Witness ==
    /\ phase = "closed"
    /\ last.op = "release"
    /\ next_addr = ZeroBatch
    /\ Len(Log) >= 3
    /\ Len(Chain(pages, meta_head)) >= 2
    /\ refcount = LogRefcountOf(pages, meta_head)

====
